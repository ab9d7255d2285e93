---------------------------- MODULE Lists_proofs ----------------------------
(***************************************************************************)
(* Theorems about Lists, for every page size, number of pages and kind of  *)
(* server: a list that is returned misses nothing that was there when the  *)
(* call began, unless an item was deleted in between; and it names nothing *)
(* twice, unless an item was added in between.  Each has the conditions on *)
(* the server that Honest and Reachable state.                             *)
(*                                                                         *)
(* The argument for the first: what has not come yet lies behind the       *)
(* offset of the next page.  An addition moves it back or leaves it there; *)
(* a page takes all there is up to the next offset; and where the client   *)
(* stops, nothing is left behind.  For the second the mirror image: what   *)
(* has come does not lie behind the offset, a deletion moves it forward or *)
(* leaves it there, and an old server's first page is everything.          *)
(***************************************************************************)
EXTENDS Lists, SequenceTheorems, TLAPS

(* The types the proof needs. *)
ListTypes ==
  /\ server \in {"numbers", "legacy", "offset"} /\ cap \in Nat \ {0} /\ tells \in BOOLEAN
  /\ counts \in {"exact", "fewer", "more"}
  /\ list \in Seq(Nat) /\ start \in Seq(Nat) /\ got \in Seq(Nat)
  /\ pc \in {"idle", "asking", "done"}
  /\ pages \in Nat /\ added \in Nat /\ deleted \in Nat /\ fresh \in Nat

(* An item that lies at offset m or behind it. *)
Behind(x, s, m) == \E i \in m + 1 .. Len(s) : s[i] = x

(* Nothing that was there when the call began is lost. *)
NothingLost == \A x \in ToSet(start) : x \in ToSet(got) \/ Behind(x, list, From)

(* Every page so far was full. *)
FullPages == Honest => Len(got) = From

ListsInv ==
  /\ ListTypes
  /\ deleted = 0 => Len(list) <= Len(start) + added
  /\ pc = "asking" => pages < MaxPages
  /\ pc = "asking" => FullPages
  /\ (pc = "asking" /\ deleted = 0 /\ Reachable) => NothingLost
  /\ CompleteUnlessDeleted

-----------------------------------------------------------------------------
(* A page holds at least one item if the list reaches that far. *)
LEMMA SizeType == ListTypes => Size \in Nat \ {0} /\ From \in Nat
<1> SUFFICES ASSUME ListTypes PROVE Size \in Nat \ {0} /\ From \in Nat
  OBVIOUS
<1>1. Size \in Nat \ {0}
  BY ListsAssumption DEF ListTypes, Size, AtMost
<1>2. pages * PageSize \in Nat /\ pages * Size \in Nat
  BY <1>1, ListsAssumption DEF ListTypes
<1>3. QED
  BY <1>1, <1>2 DEF From

(* The elements of a concatenation. *)
LEMMA ConcatItems ==
  ASSUME NEW s \in Seq(Nat), NEW t \in Seq(Nat)
  PROVE  ToSet(s \o t) = ToSet(s) \cup ToSet(t)
<1>1. /\ s \o t \in Seq(Nat) /\ Len(s \o t) = Len(s) + Len(t)
      /\ \A i \in 1 .. Len(s) + Len(t) :
           (s \o t)[i] = IF i <= Len(s) THEN s[i] ELSE t[i - Len(s)]
  BY ConcatProperties
<1> DEFINE c == s \o t
<1>2. DOMAIN s = 1 .. Len(s) /\ DOMAIN t = 1 .. Len(t) /\ DOMAIN c = 1 .. Len(c)
  BY <1>1, LenProperties
<1>3. Len(s) \in Nat /\ Len(t) \in Nat
  BY LenProperties
<1>4. ASSUME NEW i \in DOMAIN c PROVE c[i] \in ToSet(s) \cup ToSet(t)
  <2>1. CASE i <= Len(s)
    <3>1. c[i] = s[i] /\ i \in DOMAIN s
      BY <1>1, <1>2, <1>3, <1>4, <2>1
    <3>2. QED
      BY <3>1 DEF ToSet
  <2>2. CASE i > Len(s)
    <3>1. c[i] = t[i - Len(s)] /\ i - Len(s) \in DOMAIN t
      BY <1>1, <1>2, <1>3, <1>4, <2>2
    <3>2. QED
      BY <3>1 DEF ToSet
  <2>3. QED
    BY <1>1, <1>2, <1>3, <1>4, <2>1, <2>2
<1>5. ASSUME NEW i \in DOMAIN s PROVE s[i] \in ToSet(c)
  <2>1. c[i] = s[i] /\ i \in DOMAIN c
    BY <1>1, <1>2, <1>3, <1>5
  <2>2. QED
    BY <2>1 DEF ToSet
<1>6. ASSUME NEW i \in DOMAIN t PROVE t[i] \in ToSet(c)
  <2>1. c[i + Len(s)] = t[i] /\ i + Len(s) \in DOMAIN c
    BY <1>1, <1>2, <1>3, <1>6
  <2>2. QED
    BY <2>1 DEF ToSet
<1>7. QED
  BY <1>4, <1>5, <1>6 DEF ToSet

(* What is on a page. *)
LEMMA PageFacts ==
  ASSUME ListTypes
  PROVE  /\ Page \in Seq(Nat) /\ Len(Page) \in 0 .. Size
         /\ From + Size <= Len(list) => Len(Page) = Size
         /\ (From < Len(list) /\ Len(list) < From + Size) => Len(Page) = Len(list) - From
         /\ \A i \in From + 1 .. Len(list) : i <= From + Size => list[i] \in ToSet(Page)
<1> DEFINE last == AtMost(From + Size, Len(list))
<1>1. From \in Nat /\ Size \in Nat \ {0} /\ Len(list) \in Nat
  BY SizeType, LenProperties DEF ListTypes
<1>2. last \in Nat /\ last <= Len(list) /\ last <= From + Size
      /\ (last = Len(list) \/ last = From + Size)
  BY <1>1 DEF AtMost
<1>3. \A i \in From + 1 .. last : list[i] \in Nat
  <2>1. \A i \in 1 .. Len(list) : list[i] \in Nat
    BY ElementOfSeq DEF ListTypes
  <2>2. QED
    BY <1>1, <1>2, <2>1
<1>4. Page = SubSeq(list, From + 1, last)
  BY DEF Page
<1> HIDE DEF last
<1>5. /\ Page \in Seq(Nat)
      /\ Len(Page) = IF From + 1 <= last THEN last - (From + 1) + 1 ELSE 0
      /\ \A i \in 1 .. last - (From + 1) + 1 : Page[i] = list[From + 1 + i - 1]
  BY <1>1, <1>2, <1>3, <1>4, SubSeqProperties
<1>6. DOMAIN Page = 1 .. Len(Page)
  BY <1>5, LenProperties
<1>7. ASSUME NEW i \in From + 1 .. Len(list), i <= From + Size
      PROVE  list[i] \in ToSet(Page)
  <2> DEFINE k == i - From
  <2>1. k \in 1 .. last - (From + 1) + 1 /\ k \in 1 .. Len(Page) /\ From + 1 + k - 1 = i
    BY <1>1, <1>2, <1>5, <1>7
  <2> HIDE DEF k
  <2>2. Page[k] = list[i]
    BY <1>5, <2>1
  <2>3. QED
    BY <1>6, <2>1, <2>2 DEF ToSet
<1>8. QED
  BY <1>1, <1>2, <1>5, <1>7

(* What lies before and after a place in a sequence. *)
LEMMA HeadAndTail ==
  ASSUME NEW s \in Seq(Nat), NEW i \in 1 .. Len(s) + 1
  PROVE  /\ SubSeq(s, 1, i - 1) \in Seq(Nat) /\ Len(SubSeq(s, 1, i - 1)) = i - 1
         /\ \A k \in 1 .. i - 1 : SubSeq(s, 1, i - 1)[k] = s[k]
         /\ SubSeq(s, i, Len(s)) \in Seq(Nat) /\ Len(SubSeq(s, i, Len(s))) = Len(s) - i + 1
         /\ \A k \in 1 .. Len(s) - i + 1 : SubSeq(s, i, Len(s))[k] = s[i + k - 1]
<1> DEFINE a == SubSeq(s, 1, i - 1)
           b == SubSeq(s, i, Len(s))
<1>1. Len(s) \in Nat /\ \A k \in 1 .. Len(s) : s[k] \in Nat
  BY LenProperties, ElementOfSeq
<1>2. /\ a \in Seq(Nat) /\ Len(a) = i - 1
      /\ \A k \in 1 .. i - 1 : a[k] = s[k]
  <2>1. \A k \in 1 .. i - 1 : s[k] \in Nat
    BY <1>1
  <2>2. /\ a \in Seq(Nat) /\ Len(a) = IF 1 <= i - 1 THEN i - 1 - 1 + 1 ELSE 0
        /\ \A k \in 1 .. i - 1 - 1 + 1 : a[k] = s[1 + k - 1]
    BY <2>1, <1>1, SubSeqProperties
  <2>3. QED
    BY <2>2, <1>1
<1>3. /\ b \in Seq(Nat) /\ Len(b) = Len(s) - i + 1
      /\ \A k \in 1 .. Len(s) - i + 1 : b[k] = s[i + k - 1]
  <2>1. \A k \in i .. Len(s) : s[k] \in Nat
    BY <1>1
  <2>2. /\ b \in Seq(Nat) /\ Len(b) = IF i <= Len(s) THEN Len(s) - i + 1 ELSE 0
        /\ \A k \in 1 .. Len(s) - i + 1 : b[k] = s[i + k - 1]
    BY <2>1, <1>1, SubSeqProperties
  <2>3. QED
    BY <2>2, <1>1
<1>4. QED
  BY <1>2, <1>3

(* What an addition does to a list. *)
LEMMA InsertFacts ==
  ASSUME NEW s \in Seq(Nat), NEW i \in 1 .. Len(s) + 1, NEW e \in Nat
  PROVE  /\ InsertAt(s, i, e) \in Seq(Nat)
         /\ Len(InsertAt(s, i, e)) = Len(s) + 1
         /\ \A k \in 1 .. Len(s) + 1 :
              InsertAt(s, i, e)[k] = IF k < i THEN s[k] ELSE IF k = i THEN e ELSE s[k - 1]
<1> DEFINE a == SubSeq(s, 1, i - 1)
           b == SubSeq(s, i, Len(s))
           t == InsertAt(s, i, e)
<1>1. Len(s) \in Nat
  BY LenProperties
<1>2. /\ a \in Seq(Nat) /\ Len(a) = i - 1
      /\ \A k \in 1 .. i - 1 : a[k] = s[k]
      /\ b \in Seq(Nat) /\ Len(b) = Len(s) - i + 1
      /\ \A k \in 1 .. Len(s) - i + 1 : b[k] = s[i + k - 1]
  BY HeadAndTail
<1> HIDE DEF a, b
<1>3. <<e>> \in Seq(Nat) /\ Len(<<e>>) = 1 /\ <<e>>[1] = e
  OBVIOUS
<1> DEFINE c == a \o <<e>>
<1>4. /\ c \in Seq(Nat) /\ Len(c) = i
      /\ \A k \in 1 .. i - 1 : c[k] = a[k]
      /\ c[i] = e
  <2>1. /\ c \in Seq(Nat) /\ Len(c) = Len(a) + Len(<<e>>)
        /\ \A k \in 1 .. Len(a) + Len(<<e>>) :
             c[k] = IF k <= Len(a) THEN a[k] ELSE <<e>>[k - Len(a)]
    BY <1>2, <1>3, ConcatProperties
  <2>2. Len(c) = i
    BY <1>2, <1>3, <2>1
  <2>3. ASSUME NEW k \in 1 .. i - 1 PROVE c[k] = a[k]
    <3>1. k \in 1 .. Len(a) + Len(<<e>>) /\ k <= Len(a)
      BY <1>1, <1>2, <1>3
    <3>2. QED
      BY <2>1, <3>1
  <2>4. c[i] = e
    <3>1. i \in 1 .. Len(a) + Len(<<e>>) /\ ~(i <= Len(a)) /\ i - Len(a) = 1
      BY <1>1, <1>2, <1>3
    <3>2. c[i] = <<e>>[i - Len(a)]
      BY <2>1, <3>1
    <3>3. QED
      BY <1>3, <3>1, <3>2
  <2>5. QED
    BY <2>1, <2>2, <2>3, <2>4
<1>5. t = c \o b
  BY DEF InsertAt, a, b
<1> HIDE DEF c, t
<1>6. /\ t \in Seq(Nat) /\ Len(t) = Len(c) + Len(b)
      /\ \A k \in 1 .. Len(c) + Len(b) :
           t[k] = IF k <= Len(c) THEN c[k] ELSE b[k - Len(c)]
  BY <1>2, <1>4, <1>5, ConcatProperties
<1>7. Len(t) = Len(s) + 1
  BY <1>1, <1>2, <1>4, <1>6
<1>8. ASSUME NEW k \in 1 .. Len(s) + 1
      PROVE  t[k] = IF k < i THEN s[k] ELSE IF k = i THEN e ELSE s[k - 1]
  <2>0. k \in 1 .. Len(c) + Len(b)
    BY <1>6, <1>7, <1>8
  <2>1. CASE k < i
    <3>1. k \in 1 .. i - 1 /\ k <= Len(c)
      BY <1>1, <1>4, <2>1
    <3>2. QED
      BY <1>2, <1>4, <1>6, <2>0, <2>1, <3>1
  <2>2. CASE k = i
    <3>1. k <= Len(c)
      BY <1>1, <1>4, <2>2
    <3>2. QED
      BY <1>4, <1>6, <2>0, <2>2, <3>1
  <2>3. CASE k > i
    <3> DEFINE h == k - i
    <3>1. /\ ~(k <= Len(c)) /\ k - Len(c) = h
          /\ h \in 1 .. Len(s) - i + 1 /\ i + h - 1 = k - 1
          /\ ~(k < i) /\ k # i
      BY <1>1, <1>4, <2>3
    <3> HIDE DEF h
    <3>2. t[k] = b[h]
      BY <1>6, <2>0, <3>1
    <3>3. b[h] = s[k - 1]
      BY <1>2, <3>1
    <3>4. QED
      BY <3>1, <3>2, <3>3
  <2>4. QED
    BY <1>1, <2>1, <2>2, <2>3
<1>9. QED
  BY <1>6, <1>7, <1>8 DEF t

(* What a deletion does to a list. *)
LEMMA RemoveFacts ==
  ASSUME NEW s \in Seq(Nat), NEW i \in 1 .. Len(s)
  PROVE  /\ RemoveAt(s, i) \in Seq(Nat)
         /\ Len(RemoveAt(s, i)) = Len(s) - 1
         /\ \A k \in 1 .. Len(s) - 1 :
              RemoveAt(s, i)[k] = IF k < i THEN s[k] ELSE s[k + 1]
<1> DEFINE a == SubSeq(s, 1, i - 1)
           b == SubSeq(s, i + 1, Len(s))
           t == RemoveAt(s, i)
<1>1. Len(s) \in Nat
  BY LenProperties
<1>2. /\ a \in Seq(Nat) /\ Len(a) = i - 1
      /\ \A k \in 1 .. i - 1 : a[k] = s[k]
  BY <1>1, HeadAndTail
<1>3. /\ b \in Seq(Nat) /\ Len(b) = Len(s) - i
      /\ \A k \in 1 .. Len(s) - i : b[k] = s[i + k]
  <2> DEFINE n == i + 1
  <2>1. /\ n \in 1 .. Len(s) + 1 /\ Len(s) - n + 1 = Len(s) - i
        /\ \A k \in Nat : n + k - 1 = i + k
    BY <1>1
  <2>2. b = SubSeq(s, n, Len(s))
    OBVIOUS
  <2> HIDE DEF n, b
  <2>3. /\ b \in Seq(Nat) /\ Len(b) = Len(s) - n + 1
        /\ \A k \in 1 .. Len(s) - n + 1 : b[k] = s[n + k - 1]
    BY <2>1, <2>2, HeadAndTail
  <2>4. ASSUME NEW k \in 1 .. Len(s) - i PROVE b[k] = s[i + k]
    <3>1. k \in 1 .. Len(s) - n + 1 /\ n + k - 1 = i + k
      BY <2>1
    <3>2. QED
      BY <2>3, <3>1
  <2>5. QED
    BY <2>1, <2>3, <2>4
<1> HIDE DEF a, b
<1>4. t = a \o b
  BY DEF RemoveAt, a, b
<1> HIDE DEF t
<1>5. /\ t \in Seq(Nat) /\ Len(t) = Len(a) + Len(b)
      /\ \A k \in 1 .. Len(a) + Len(b) :
           t[k] = IF k <= Len(a) THEN a[k] ELSE b[k - Len(a)]
  BY <1>2, <1>3, <1>4, ConcatProperties
<1>6. Len(t) = Len(s) - 1
  BY <1>1, <1>2, <1>3, <1>5
<1>7. ASSUME NEW k \in 1 .. Len(s) - 1
      PROVE  t[k] = IF k < i THEN s[k] ELSE s[k + 1]
  <2>0. k \in 1 .. Len(a) + Len(b)
    BY <1>5, <1>6, <1>7
  <2>1. CASE k < i
    <3>1. k \in 1 .. i - 1 /\ k <= Len(a)
      BY <1>1, <1>2, <2>1
    <3>2. QED
      BY <1>2, <1>5, <2>0, <2>1, <3>1
  <2>2. CASE k >= i
    <3> DEFINE h == k - i + 1
    <3>1. /\ ~(k <= Len(a)) /\ k - Len(a) = h
          /\ h \in 1 .. Len(s) - i /\ i + h = k + 1 /\ ~(k < i)
      BY <1>1, <1>2, <2>2
    <3> HIDE DEF h
    <3>2. t[k] = b[h]
      BY <1>5, <2>0, <3>1
    <3>3. b[h] = s[k + 1]
      BY <1>3, <3>1
    <3>4. QED
      BY <3>1, <3>2, <3>3
  <2>3. QED
    BY <1>1, <2>1, <2>2
<1>8. QED
  BY <1>5, <1>6, <1>7 DEF t

(* An addition moves an item back, or leaves it where it is. *)
LEMMA AddKeepsBehind ==
  ASSUME NEW s \in Seq(Nat), NEW i \in 1 .. Len(s) + 1, NEW e \in Nat, NEW m \in Nat
  PROVE  \A x : Behind(x, s, m) => Behind(x, InsertAt(s, i, e), m)
<1> DEFINE t == InsertAt(s, i, e)
<1>1. Len(s) \in Nat
  BY LenProperties
<1>2. /\ Len(t) = Len(s) + 1
      /\ \A k \in 1 .. Len(s) + 1 :
           t[k] = IF k < i THEN s[k] ELSE IF k = i THEN e ELSE s[k - 1]
  BY InsertFacts, ZenonT(30)
<1> HIDE DEF t
<1>3. ASSUME NEW x, NEW k \in m + 1 .. Len(s), s[k] = x
      PROVE  \E j \in m + 1 .. Len(t) : t[j] = x
  <2>1. CASE k < i
    <3>1. k \in m + 1 .. Len(t) /\ k \in 1 .. Len(s) + 1
      BY <1>1, <1>2
    <3>2. QED
      BY <1>2, <1>3, <2>1, <3>1
  <2>2. CASE k >= i
    <3> DEFINE n == k + 1
    <3>1. /\ n \in m + 1 .. Len(t) /\ n \in 1 .. Len(s) + 1
          /\ ~(n < i) /\ n # i /\ n - 1 = k
      BY <1>1, <1>2, <2>2
    <3> HIDE DEF n
    <3>2. t[n] = s[n - 1]
      BY <1>2, <3>1
    <3>3. QED
      BY <1>3, <3>1, <3>2
  <2>3. QED
    BY <1>1, <2>1, <2>2
<1>4. QED
  BY <1>3 DEF Behind, t

-----------------------------------------------------------------------------
(* The offset moves by a page at a time, with a server that is honest. *)
LEMMA NextOffset ==
  ASSUME ListTypes, Receive
  PROVE  /\ Honest => From' = From + Size
         /\ server = "legacy" => From' = 0 /\ From = 0
<1>1. server' = server /\ cap' = cap /\ pages' = pages + 1
  BY DEF Receive, kind
<1>2. Size' = Size
  BY <1>1 DEF Size, AtMost
<1>3. Size \in Nat /\ PageSize \in Nat /\ pages \in Nat
  BY SizeType, ListsAssumption DEF ListTypes
<1>4. /\ (pages + 1) * Size = pages * Size + Size
      /\ (pages + 1) * PageSize = pages * PageSize + PageSize
  BY <1>3
<1>5. CASE server = "offset"
  <2>1. Honest => Size = PageSize
    BY <1>5 DEF Honest
  <2>2. From = pages * PageSize /\ From' = (pages + 1) * PageSize
    BY <1>1, <1>5 DEF From
  <2>3. QED
    BY <1>4, <1>5, <2>1, <2>2
<1>6. CASE server = "numbers"
  BY <1>1, <1>2, <1>4, <1>6 DEF From
<1>7. CASE server = "legacy"
  BY <1>1, <1>7 DEF From, Honest
<1>8. QED
  BY <1>5, <1>6, <1>7 DEF ListTypes

(* A page takes everything up to where it ends. *)
LEMMA PageTakes ==
  ASSUME ListTypes, NEW x, Behind(x, list, From)
  PROVE  x \in ToSet(Page) \/ Behind(x, list, From + Size)
<1>1. PICK i \in From + 1 .. Len(list) : list[i] = x
  BY DEF Behind
<1>2. From \in Nat /\ Size \in Nat /\ Len(list) \in Nat
  BY SizeType, LenProperties DEF ListTypes
<1>3. CASE i <= From + Size
  BY <1>1, <1>3, PageFacts
<1>4. CASE i > From + Size
  <2>1. i \in From + Size + 1 .. Len(list)
    BY <1>1, <1>2, <1>4
  <2>2. QED
    BY <1>1, <2>1 DEF Behind
<1>5. QED
  BY <1>1, <1>2, <1>3, <1>4

(* What the server reports with a page: no fewer items than there are if   *)
(* it is honest, and no more if it does not count more.                    *)
LEMMA TotalFacts ==
  ASSUME ListTypes, NEW total \in Totals
  PROVE  /\ total \in Nat
         /\ Honest => total >= Len(list)
         /\ counts # "more" => total <= Len(list)
<1>1. Len(list) \in Nat
  BY LenProperties DEF ListTypes
<1>2. QED
  BY <1>1, ListsAssumption DEF Totals, Honest, ListTypes

(* While the client goes on, its page was full. *)
LEMMA GoesOnFull ==
  ASSUME ListTypes, Receive, Honest, pc' = "asking"
  PROVE  Len(Page) = Size /\ From + Size <= Len(list)
<1>1. Effective = Size
  BY DEF Honest, Effective
<1>2. ~(Len(Page) < Size)
  <2>1. PICK total \in Totals : ~LastPage(Page, total)
    BY DEF Receive
  <2>2. QED
    BY <1>1, <2>1 DEF LastPage
<1>3. From \in Nat /\ Size \in Nat \ {0} /\ Len(list) \in Nat
  BY SizeType, LenProperties DEF ListTypes
<1>4. Len(Page) = Size
  BY <1>2, <1>3, PageFacts
<1>5. Page # <<>>
  BY <1>3, <1>4
<1>6. QED
  BY <1>3, <1>4, <1>5, PageFacts, SubSeqEmpty DEF Page, AtMost

(* Where the client stops, an honest server has nothing behind the page,   *)
(* provided the list is within reach.                                      *)
LEMMA StopsAtEnd ==
  ASSUME ListsInv, Receive, Honest, pc' = "done", Len(list) <= MaxPages * Size
  PROVE  Len(list) <= From + Size
<1>1. ListTypes /\ Len(got) = From
  BY DEF ListsInv, Receive, FullPages
<1>2. From \in Nat /\ Size \in Nat \ {0} /\ Len(list) \in Nat
  BY <1>1, SizeType, LenProperties DEF ListTypes
<1>3. SUFFICES ASSUME From + Size < Len(list) PROVE FALSE
  BY <1>2
<1>4. Len(Page) = Size
  BY <1>1, <1>2, <1>3, PageFacts
<1>5. Effective = Size
  BY DEF Honest, Effective
<1>6. ASSUME NEW total \in Totals PROVE ~LastPage(Page, total)
  <2>1. Page # <<>>
    BY <1>2, <1>4
  <2>2. ~(Len(got) + Len(Page) >= total)
    BY <1>1, <1>2, <1>3, <1>4, TotalFacts
  <2>3. ~(Len(Page) < Effective)
    BY <1>2, <1>4, <1>5
  <2>4. QED
    BY <2>1, <2>2, <2>3 DEF LastPage
<1>7. pages' = MaxPages /\ pages' = pages + 1
  BY <1>6 DEF Receive
<1>8. From' = From + Size
  BY <1>1, NextOffset
<1>9. From' = MaxPages * Size
  <2>1. server' = server /\ Size' = Size
    BY DEF Receive, kind, Size, AtMost
  <2>2. CASE server = "offset"
    BY <1>7, <2>1, <2>2 DEF From, Honest
  <2>3. CASE server = "numbers"
    BY <1>7, <2>1, <2>3 DEF From
  <2>4. QED
    BY <1>1, <2>2, <2>3 DEF ListTypes, Honest
<1>10. QED
  BY <1>2, <1>3, <1>8, <1>9

-----------------------------------------------------------------------------
(* The invariant holds initially. *)
LEMMA ListsInit == Init => ListsInv
<1> SUFFICES ASSUME Init PROVE ListsInv
  OBVIOUS
<1>1. PICK n \in 0 .. MaxItems : list = [i \in 1 .. n |-> i]
  BY DEF Init
<1>2. list \in Seq(Nat)
  <2>1. n \in Nat
    BY ListsAssumption
  <2>2. list \in [1 .. n -> Nat]
    BY <1>1, <2>1
  <2>3. QED
    BY <2>1, <2>2, SeqDef
<1>3. ListTypes
  BY <1>2, ListsAssumption, EmptySeq DEF Init, ListTypes
<1>4. Len(list) <= Len(start) + added
  BY <1>2, LenProperties DEF Init
<1>5. QED
  BY <1>3, <1>4 DEF Init, ListsInv, CompleteUnlessDeleted

(* A call begins with everything behind its offset. *)
LEMMA BeginStep == ListsInv /\ Begin => ListsInv'
<1> SUFFICES ASSUME ListsInv, Begin PROVE ListsInv'
  OBVIOUS
<1>1. ListTypes'
  BY EmptySeq DEF ListsInv, ListTypes, Begin, kind
<1>2. From' = 0
  <2>1. (Size \in Nat \ {0})'
    BY <1>1, ListsAssumption DEF ListTypes, Size, AtMost
  <2>2. \A n \in Nat : 0 * n = 0
    OBVIOUS
  <2>3. pages' = 0
    BY DEF Begin
  <2>4. pages' * PageSize = 0 /\ pages' * Size' = 0
    BY <2>1, <2>2, <2>3, ListsAssumption
  <2>5. QED
    BY <2>4 DEF From
<1>3. start' = list /\ list' = list /\ got' = <<>> /\ pages' = 0 /\ pc' = "asking"
  BY DEF Begin
<1>4. NothingLost'
  <2>1. list \in Seq(Nat) /\ DOMAIN list = 1 .. Len(list)
    BY LenProperties DEF ListsInv, ListTypes
  <2>2. \A x \in ToSet(list) : \E i \in 0 + 1 .. Len(list) : list[i] = x
    BY <2>1 DEF ToSet
  <2>3. QED
    BY <1>2, <1>3, <2>2 DEF NothingLost, Behind
<1>5. FullPages' /\ pages' < MaxPages
  BY <1>2, <1>3, ListsAssumption, EmptySeq DEF FullPages
<1>6. Len(list') <= Len(start') + added'
  BY <1>3, LenProperties DEF Begin, ListsInv, ListTypes
<1>7. QED
  BY <1>1, <1>3, <1>4, <1>5, <1>6 DEF ListsInv, CompleteUnlessDeleted

(* A page leaves nothing behind but what lies behind the next offset; the  *)
(* last page leaves nothing behind.                                        *)
LEMMA ReceiveStep == ListsInv /\ Receive => ListsInv'
<1> SUFFICES ASSUME ListsInv, Receive PROVE ListsInv'
  OBVIOUS
<1>1. /\ ListTypes /\ FullPages /\ pages < MaxPages
      /\ deleted = 0 => Len(list) <= Len(start) + added
      /\ (deleted = 0 /\ Reachable) => NothingLost
  BY DEF ListsInv, Receive
<1>2. /\ server' = server /\ cap' = cap /\ tells' = tells /\ counts' = counts /\ list' = list
      /\ start' = start /\ added' = added /\ deleted' = deleted /\ fresh' = fresh
      /\ got' = got \o Page /\ pages' = pages + 1 /\ pc' \in {"asking", "done"}
  BY DEF Receive, kind
<1>3. Size' = Size /\ Honest' = Honest /\ Reachable' = Reachable
  BY <1>2 DEF Size, Honest, Reachable, AtMost
<1>0. ASSUME deleted = 0, Reachable
      PROVE  Len(list) <= IF Honest THEN MaxPages * Size ELSE From + Size
  <2>1. Len(list) \in Nat /\ Len(start) \in Nat /\ added \in Nat
    BY <1>1, LenProperties DEF ListTypes
  <2>2. Size \in Nat /\ From \in Nat /\ MaxPages * Size \in Nat
    BY <1>1, SizeType, ListsAssumption
  <2>3. QED
    BY <1>0, <1>1, <2>1, <2>2 DEF Reachable
<1>4. /\ got \o Page \in Seq(Nat) /\ Len(got \o Page) = Len(got) + Len(Page)
      /\ ToSet(got') = ToSet(got) \cup ToSet(Page)
  BY <1>1, <1>2, PageFacts, ConcatProperties, ConcatItems DEF ListTypes
<1>5. ListTypes'
  BY <1>1, <1>2, <1>4 DEF ListTypes
<1>6. pc' = "asking" => pages' < MaxPages
  BY <1>1, <1>2, ListsAssumption DEF Receive, ListTypes
<1>7. pc' = "asking" => FullPages'
  <2> SUFFICES ASSUME pc' = "asking", Honest PROVE Len(got') = From'
    BY <1>3 DEF FullPages
  <2>1. Len(got) = From /\ Len(Page) = Size /\ From' = From + Size
    BY <1>1, GoesOnFull, NextOffset DEF FullPages
  <2>2. QED
    BY <1>2, <1>4, <2>1
<1>8. ASSUME NEW x, Len(list) <= From + Size PROVE ~Behind(x, list, From + Size)
  <2>1. From + Size \in Nat /\ Len(list) \in Nat
    BY <1>1, SizeType, LenProperties DEF ListTypes
  <2>2. QED
    BY <1>8, <2>1 DEF Behind
<1>9. ASSUME pc' = "asking", deleted = 0, Reachable
      PROVE  NothingLost'
  <2> SUFFICES ASSUME NEW x \in ToSet(start)
               PROVE  x \in ToSet(got') \/ Behind(x, list, From')
    BY <1>2 DEF NothingLost
  <2>1. x \in ToSet(got) \/ Behind(x, list, From)
    BY <1>1, <1>9 DEF NothingLost
  <2>2. CASE Honest
    BY <1>1, <1>4, <2>1, <2>2, NextOffset, PageTakes
  <2>3. CASE ~Honest
    <3>1. ~Behind(x, list, From + Size)
      BY <1>0, <1>8, <1>9, <2>3
    <3>2. QED
      BY <1>1, <1>4, <2>1, <3>1, PageTakes
  <2>4. QED
    BY <2>2, <2>3
<1>10. CompleteUnlessDeleted'
  <2> SUFFICES ASSUME pc' = "done", deleted = 0, Reachable,
                      NEW x \in ToSet(start)
               PROVE  x \in ToSet(got')
    BY <1>2, <1>3 DEF CompleteUnlessDeleted
  <2>1. x \in ToSet(got) \/ Behind(x, list, From)
    BY <1>1 DEF NothingLost
  <2>2. Len(list) <= From + Size
    BY <1>0, StopsAtEnd
  <2>3. QED
    BY <1>1, <1>4, <1>8, <2>1, <2>2, PageTakes
<1>11. QED
  BY <1>1, <1>2, <1>3, <1>5, <1>6, <1>7, <1>9, <1>10 DEF ListsInv

(* A failed call returns nothing. *)
LEMMA FailStep == ListsInv /\ Fail => ListsInv'
<1> SUFFICES ASSUME ListsInv, Fail PROVE ListsInv'
  OBVIOUS
<1>1. ListTypes'
  BY EmptySeq DEF ListsInv, ListTypes, Fail, kind
<1>2. QED
  BY <1>1 DEF ListsInv, Fail, CompleteUnlessDeleted

(* An addition leaves behind the offset what was there. *)
LEMMA AddStep == ListsInv /\ Add => ListsInv'
<1> SUFFICES ASSUME ListsInv, Add PROVE ListsInv'
  OBVIOUS
<1>1. PICK i \in 1 .. Len(list) + 1 : list' = InsertAt(list, i, fresh)
  BY DEF Add
<1>2. /\ server' = server /\ cap' = cap /\ tells' = tells /\ counts' = counts /\ start' = start
      /\ pc' = pc /\ pages' = pages /\ got' = got /\ deleted' = deleted
      /\ fresh' = fresh + 1 /\ added' = added + 1
  BY DEF Add, kind, call
<1>3. Size' = Size /\ From' = From /\ Honest' = Honest
  BY <1>2 DEF Size, From, Honest, AtMost
<1>4. ListTypes /\ From \in Nat
  BY SizeType DEF ListsInv
<1>5. /\ list' \in Seq(Nat) /\ Len(list') = Len(list) + 1
      /\ \A x : Behind(x, list, From) => Behind(x, list', From)
  BY <1>1, <1>4, InsertFacts, AddKeepsBehind DEF ListTypes
<1>6. ListTypes'
  BY <1>2, <1>4, <1>5 DEF ListTypes
<1>7. deleted' = 0 => Len(list') <= Len(start') + added'
  BY <1>2, <1>4, <1>5, LenProperties DEF ListsInv, ListTypes
<1>8. NothingLost => NothingLost'
  BY <1>2, <1>3, <1>5 DEF NothingLost
<1>9. FullPages => FullPages'
  BY <1>2, <1>3 DEF FullPages
<1>10. Reachable' => Reachable
  <2>1. /\ Len(start) \in Nat /\ added \in Nat /\ Size \in Nat
        /\ MaxPages * Size \in Nat
    BY <1>4, SizeType, LenProperties, ListsAssumption DEF ListTypes
  <2>2. QED
    BY <1>2, <1>3, <2>1 DEF Reachable
<1>11. CompleteUnlessDeleted'
  BY <1>2, <1>3, <1>10 DEF ListsInv, CompleteUnlessDeleted
<1>12. QED
  BY <1>2, <1>3, <1>6, <1>7, <1>8, <1>9, <1>10, <1>11 DEF ListsInv

(* After a deletion only the types are left to keep. *)
LEMMA DeleteStep == ListsInv /\ Delete => ListsInv'
<1> SUFFICES ASSUME ListsInv, Delete PROVE ListsInv'
  OBVIOUS
<1>1. PICK i \in 1 .. Len(list) : list' = RemoveAt(list, i)
  BY DEF Delete
<1>2. /\ server' = server /\ cap' = cap /\ tells' = tells /\ counts' = counts /\ start' = start
      /\ pc' = pc /\ pages' = pages /\ got' = got /\ deleted' = deleted + 1
      /\ fresh' = fresh /\ added' = added
  BY DEF Delete, kind, call
<1>3. From' = From /\ Honest' = Honest
  BY <1>2 DEF Size, From, Honest, AtMost
<1>4. ListTypes
  BY DEF ListsInv
<1>5. list' \in Seq(Nat)
  BY <1>1, <1>4, RemoveFacts DEF ListTypes
<1>6. ListTypes' /\ deleted' # 0
  BY <1>2, <1>4, <1>5 DEF ListTypes
<1>7. FullPages => FullPages'
  BY <1>2, <1>3 DEF FullPages
<1>8. QED
  BY <1>2, <1>6, <1>7 DEF ListsInv, CompleteUnlessDeleted

(* The invariant holds of every behaviour. *)
LEMMA AlwaysListsInv == Spec => []ListsInv
<1>1. ListsInv /\ UNCHANGED vars => ListsInv'
  <2> SUFFICES ASSUME ListsInv, UNCHANGED vars PROVE ListsInv'
    OBVIOUS
  <2>1. /\ server' = server /\ cap' = cap /\ tells' = tells /\ counts' = counts /\ list' = list
        /\ pc' = pc /\ pages' = pages /\ got' = got /\ start' = start
        /\ added' = added /\ deleted' = deleted /\ fresh' = fresh
    BY DEF vars
  <2>2. Size' = Size /\ From' = From /\ Honest' = Honest /\ Reachable' = Reachable
    BY <2>1 DEF Size, From, Honest, Reachable, AtMost
  <2>3. ListTypes' /\ (FullPages => FullPages') /\ (NothingLost => NothingLost')
        /\ CompleteUnlessDeleted'
    BY <2>1, <2>2 DEF ListsInv, ListTypes, FullPages, NothingLost, Behind, CompleteUnlessDeleted
  <2>4. QED
    BY <2>1, <2>2, <2>3 DEF ListsInv
<1>2. ListsInv /\ [Next]_vars => ListsInv'
  BY <1>1, BeginStep, ReceiveStep, FailStep, AddStep, DeleteStep DEF Next
<1>3. QED
  BY <1>2, ListsInit, PTL DEF Spec

(* A list that ListSites, ListResources or ListTargetsRaw returns misses   *)
(* nothing that was there when the call began, unless an item was deleted  *)
(* in between or the list is out of reach: longer than its first page, if  *)
(* the server gives less than it is asked for without saying so, reports a *)
(* total that is too small or left out, or is an old one; longer than      *)
(* MaxPages pages, of any other.                                           *)
THEOREM Complete == Spec => []CompleteUnlessDeleted
<1>1. ListsInv => CompleteUnlessDeleted
  BY DEF ListsInv
<1>2. QED
  BY <1>1, AlwaysListsInv, PTL

-----------------------------------------------------------------------------
(* Nothing comes twice: no two items are equal, and what has come does not *)
(* lie behind the offset, where a deletion cannot bring it back to.        *)
Distinct(s) == \A i, j \in 1 .. Len(s) : s[i] = s[j] => i = j

Below(s, n) == \A i \in 1 .. Len(s) : s[i] < n

(* Nothing has been added, and an old server returns everything and says   *)
(* so.                                                                     *)
Calm == added = 0 /\ (server = "legacy" => Reachable /\ counts # "more")

NothingAhead ==
  IF server = "legacy" THEN got = <<>>
  ELSE \A x \in ToSet(got) : ~Behind(x, list, From)

OnceInv ==
  /\ Len(list) <= Len(start) + added
  /\ Distinct(list) /\ Below(list, fresh)
  /\ Calm => Distinct(got)
  /\ (pc = "asking" /\ Calm) => NothingAhead

(* A new item is added to a list of distinct items. *)
LEMMA AddKeepsDistinct ==
  ASSUME NEW s \in Seq(Nat), NEW i \in 1 .. Len(s) + 1, NEW e \in Nat,
         Distinct(s), Below(s, e)
  PROVE  Distinct(InsertAt(s, i, e)) /\ Below(InsertAt(s, i, e), e + 1)
<1> DEFINE t == InsertAt(s, i, e)
           Old(k) == IF k < i THEN k ELSE k - 1
<1>1. Len(s) \in Nat /\ \A k \in 1 .. Len(s) : s[k] \in Nat /\ s[k] < e
  BY LenProperties, ElementOfSeq DEF Below
<1>2. /\ Len(t) = Len(s) + 1
      /\ \A k \in 1 .. Len(s) + 1 :
           t[k] = IF k < i THEN s[k] ELSE IF k = i THEN e ELSE s[k - 1]
  BY InsertFacts, ZenonT(30)
<1> HIDE DEF t
<1>3. ASSUME NEW k \in 1 .. Len(t), k # i
      PROVE  Old(k) \in 1 .. Len(s) /\ t[k] = s[Old(k)] /\ t[k] # e /\ t[k] < e + 1
  <2>1. Old(k) \in 1 .. Len(s)
    BY <1>1, <1>2, <1>3
  <2>2. t[k] = s[Old(k)]
    BY <1>1, <1>2, <1>3
  <2>3. QED
    BY <1>1, <2>1, <2>2
<1>4. t[i] = e
  BY <1>1, <1>2
<1>5. ASSUME NEW j \in 1 .. Len(t), NEW k \in 1 .. Len(t), t[j] = t[k]
      PROVE  j = k
  <2>1. CASE j # i /\ k # i
    <3>1. Old(j) = Old(k)
      BY <1>3, <1>5, <2>1 DEF Distinct
    <3>2. QED
      BY <1>1, <1>2, <2>1, <3>1
  <2>2. CASE j = i \/ k = i
    BY <1>3, <1>4, <1>5, <2>2
  <2>3. QED
    BY <2>1, <2>2
<1>6. ASSUME NEW k \in 1 .. Len(t) PROVE t[k] < e + 1
  BY <1>3, <1>4
<1>7. QED
  BY <1>5, <1>6 DEF Distinct, Below, t

(* A deletion leaves distinct items distinct, and moves none back. *)
LEMMA DeleteKeepsDistinct ==
  ASSUME NEW s \in Seq(Nat), NEW i \in 1 .. Len(s), NEW n \in Nat, NEW m \in Nat,
         Distinct(s), Below(s, n)
  PROVE  /\ Distinct(RemoveAt(s, i)) /\ Below(RemoveAt(s, i), n)
         /\ \A x : Behind(x, RemoveAt(s, i), m) => Behind(x, s, m)
<1> DEFINE t == RemoveAt(s, i)
           Old(k) == IF k < i THEN k ELSE k + 1
<1>1. Len(s) \in Nat
  BY LenProperties
<1>2. /\ Len(t) = Len(s) - 1
      /\ \A k \in 1 .. Len(s) - 1 : t[k] = IF k < i THEN s[k] ELSE s[k + 1]
  BY RemoveFacts, ZenonT(30)
<1> HIDE DEF t
<1>3. ASSUME NEW k \in 1 .. Len(t)
      PROVE  Old(k) \in 1 .. Len(s) /\ Old(k) >= k /\ t[k] = s[Old(k)]
  <2>1. k \in 1 .. Len(s) - 1
    BY <1>2, <1>3
  <2>2. t[k] = s[Old(k)]
    BY <1>2, <2>1
  <2>3. Old(k) \in 1 .. Len(s) /\ Old(k) >= k
    BY <1>1, <2>1
  <2>4. QED
    BY <2>2, <2>3
<1>4. ASSUME NEW j \in 1 .. Len(t), NEW k \in 1 .. Len(t), t[j] = t[k]
      PROVE  j = k
  <2>1. Old(j) = Old(k)
    BY <1>3, <1>4 DEF Distinct
  <2>2. QED
    BY <1>1, <2>1
<1>5. ASSUME NEW k \in 1 .. Len(t) PROVE t[k] < n
  BY <1>3 DEF Below
<1>6. ASSUME NEW x, NEW k \in m + 1 .. Len(t), t[k] = x
      PROVE  \E j \in m + 1 .. Len(s) : s[j] = x
  <2>1. k \in 1 .. Len(t) /\ k >= m + 1
    BY <1>1, <1>2
  <2> HIDE DEF Old
  <2>2. Old(k) \in 1 .. Len(s) /\ Old(k) >= k /\ s[Old(k)] = x
    BY <1>3, <1>6, <2>1
  <2>3. Old(k) \in m + 1 .. Len(s)
    BY <1>1, <2>1, <2>2
  <2>4. QED
    BY <2>2, <2>3
<1>7. QED
  BY <1>4, <1>5, <1>6 DEF Distinct, Below, Behind, t

(* What lies behind an offset lies behind any smaller one. *)
LEMMA BehindSmaller ==
  ASSUME NEW s \in Seq(Nat), NEW m \in Nat, NEW n \in Nat, m <= n, NEW x, Behind(x, s, n)
  PROVE  Behind(x, s, m)
<1>1. PICK i \in n + 1 .. Len(s) : s[i] = x
  BY DEF Behind
<1>2. i \in m + 1 .. Len(s)
  BY LenProperties
<1>3. QED
  BY <1>1, <1>2 DEF Behind

(* Two lists of distinct items, with none in common, make a third. *)
LEMMA ConcatDistinct ==
  ASSUME NEW s \in Seq(Nat), NEW t \in Seq(Nat), Distinct(s), Distinct(t),
         \A x \in ToSet(s) : x \notin ToSet(t)
  PROVE  Distinct(s \o t)
<1> DEFINE c == s \o t
<1>1. Len(s) \in Nat /\ Len(t) \in Nat
  BY LenProperties
<1>2. /\ Len(c) = Len(s) + Len(t)
      /\ \A i \in 1 .. Len(s) + Len(t) :
           c[i] = IF i <= Len(s) THEN s[i] ELSE t[i - Len(s)]
  BY ConcatProperties
<1> HIDE DEF c
<1>3. DOMAIN s = 1 .. Len(s) /\ DOMAIN t = 1 .. Len(t)
  BY LenProperties
<1>4. ASSUME NEW i \in 1 .. Len(c), i <= Len(s)
      PROVE  i \in 1 .. Len(s) /\ c[i] = s[i] /\ c[i] \in ToSet(s)
  <2>1. i \in 1 .. Len(s) /\ c[i] = s[i]
    BY <1>1, <1>2, <1>4
  <2>2. QED
    BY <1>3, <2>1 DEF ToSet
<1>5. ASSUME NEW i \in 1 .. Len(c), ~(i <= Len(s))
      PROVE  i - Len(s) \in 1 .. Len(t) /\ c[i] = t[i - Len(s)] /\ c[i] \in ToSet(t)
  <2>1. i - Len(s) \in 1 .. Len(t)
    BY <1>1, <1>2, <1>5
  <2>2. c[i] = t[i - Len(s)]
    BY <1>2, <1>5
  <2>3. QED
    BY <1>3, <2>1, <2>2 DEF ToSet
<1>6. ASSUME NEW i \in 1 .. Len(c), NEW j \in 1 .. Len(c), c[i] = c[j]
      PROVE  i = j
  <2>1. CASE i <= Len(s) /\ j <= Len(s)
    BY <1>4, <1>6, <2>1 DEF Distinct
  <2>2. CASE ~(i <= Len(s)) /\ ~(j <= Len(s))
    <3>1. i - Len(s) = j - Len(s)
      BY <1>5, <1>6, <2>2 DEF Distinct
    <3>2. QED
      BY <1>1, <3>1
  <2>3. CASE i <= Len(s) /\ ~(j <= Len(s))
    BY <1>4, <1>5, <1>6, <2>3
  <2>4. CASE ~(i <= Len(s)) /\ j <= Len(s)
    BY <1>4, <1>5, <1>6, <2>4
  <2>5. QED
    BY <2>1, <2>2, <2>3, <2>4
<1>7. QED
  BY <1>6 DEF Distinct, c

(* The items of a page are distinct, and lie between its offset and its end. *)
LEMMA PageItems ==
  ASSUME ListTypes, Distinct(list)
  PROVE  /\ Distinct(Page)
         /\ \A x \in ToSet(Page) : Behind(x, list, From) /\ ~Behind(x, list, From + Size)
<1> DEFINE last == AtMost(From + Size, Len(list))
<1>1. From \in Nat /\ Size \in Nat \ {0} /\ Len(list) \in Nat
  BY SizeType, LenProperties DEF ListTypes
<1>2. last \in Nat /\ last <= Len(list) /\ last <= From + Size
  BY <1>1 DEF AtMost
<1>3. \A i \in From + 1 .. last : list[i] \in Nat
  <2>1. \A i \in 1 .. Len(list) : list[i] \in Nat
    BY ElementOfSeq DEF ListTypes
  <2>2. QED
    BY <1>1, <1>2, <2>1
<1>4. Page = SubSeq(list, From + 1, last)
  BY DEF Page
<1> HIDE DEF last
<1>5. /\ Page \in Seq(Nat)
      /\ Len(Page) = IF From + 1 <= last THEN last - (From + 1) + 1 ELSE 0
      /\ \A i \in 1 .. last - (From + 1) + 1 : Page[i] = list[From + 1 + i - 1]
  BY <1>1, <1>2, <1>3, <1>4, SubSeqProperties
<1>6. DOMAIN Page = 1 .. Len(Page)
  BY <1>5, LenProperties
<1>7. ASSUME NEW i \in 1 .. Len(Page)
      PROVE  /\ From + i \in 1 .. Len(list) /\ From + i \in From + 1 .. Len(list)
             /\ From + i <= From + Size /\ Page[i] = list[From + i]
  <2>1. /\ i \in 1 .. last - (From + 1) + 1 /\ From + 1 + i - 1 = From + i
        /\ From + i \in 1 .. Len(list) /\ From + i \in From + 1 .. Len(list)
        /\ From + i <= From + Size
    BY <1>1, <1>2, <1>5
  <2>2. QED
    BY <1>5, <2>1
<1>8. Distinct(Page)
  <2> SUFFICES ASSUME NEW i \in 1 .. Len(Page), NEW j \in 1 .. Len(Page), Page[i] = Page[j]
               PROVE  i = j
    BY DEF Distinct
  <2>1. From + i = From + j
    BY <1>7 DEF Distinct
  <2>2. QED
    BY <1>1, <2>1
<1>9. ASSUME NEW x \in ToSet(Page)
      PROVE  Behind(x, list, From) /\ ~Behind(x, list, From + Size)
  <2>1. PICK i \in 1 .. Len(Page) : Page[i] = x
    BY <1>6, <1>9 DEF ToSet
  <2>2. /\ From + i \in 1 .. Len(list) /\ From + i \in From + 1 .. Len(list)
        /\ From + i <= From + Size /\ list[From + i] = x
    BY <1>7, <2>1
  <2>3. ASSUME NEW k \in From + Size + 1 .. Len(list), list[k] = x PROVE FALSE
    <3>1. k \in 1 .. Len(list) /\ k > From + Size
      BY <1>1, <2>3
    <3>2. k = From + i
      BY <2>2, <2>3, <3>1 DEF Distinct
    <3>3. QED
      BY <1>1, <2>2, <3>1, <3>2
  <2>4. QED
    BY <2>2, <2>3 DEF Behind
<1>10. QED
  BY <1>8, <1>9

(* The next page begins where this one ends, or later. *)
LEMMA OffsetGrows ==
  ASSUME ListTypes, Receive, server # "legacy"
  PROVE  From' \in Nat /\ From + Size <= From'
<1>1. server' = server /\ cap' = cap /\ pages' = pages + 1
  BY DEF Receive, kind
<1>2. Size' = Size
  BY <1>1 DEF Size, AtMost
<1>3. Size \in Nat /\ PageSize \in Nat /\ pages \in Nat /\ Size <= PageSize
  <2>1. Size <= PageSize
    BY ListsAssumption DEF Size, AtMost, ListTypes
  <2>2. QED
    BY <2>1, SizeType, ListsAssumption DEF ListTypes
<1>4. /\ (pages + 1) * Size = pages * Size + Size
      /\ (pages + 1) * PageSize = pages * PageSize + PageSize
      /\ pages * Size \in Nat /\ pages * PageSize \in Nat
  BY <1>3
<1>5. CASE server = "offset"
  <2>1. From = pages * PageSize /\ From' = (pages + 1) * PageSize
    BY <1>1, <1>5 DEF From
  <2>2. QED
    BY <1>3, <1>4, <2>1
<1>6. CASE server = "numbers"
  <2>1. From = pages * Size /\ From' = (pages + 1) * Size
    BY <1>1, <1>2, <1>6 DEF From
  <2>2. QED
    BY <1>3, <1>4, <2>1
<1>7. QED
  BY <1>5, <1>6 DEF ListTypes

(* The items there are at first are distinct. *)
LEMMA OnceInit == Init => OnceInv
<1> SUFFICES ASSUME Init PROVE OnceInv
  OBVIOUS
<1>1. PICK n \in 0 .. MaxItems : list = [i \in 1 .. n |-> i]
  BY DEF Init
<1>2. n \in Nat /\ n <= MaxItems /\ MaxItems \in Nat
  BY <1>1, ListsAssumption
<1>3. list \in Seq(Nat) /\ Len(list) = n
  <2>1. list \in [1 .. n -> Nat]
    BY <1>1, <1>2
  <2>2. list \in Seq(Nat)
    BY <1>2, <2>1, SeqDef
  <2>3. DOMAIN list = 1 .. n
    BY <1>1
  <2>4. QED
    BY <1>2, <2>2, <2>3, LenProperties
<1>4. Distinct(list) /\ Below(list, fresh)
  BY <1>1, <1>2, <1>3 DEF Distinct, Below, Init
<1>5. Distinct(got)
  BY EmptySeq DEF Init, Distinct
<1>6. QED
  BY <1>3, <1>4, <1>5 DEF Init, OnceInv

(* A page is disjoint from what has come before. *)
LEMMA OnceReceive == ListsInv /\ OnceInv /\ Receive => OnceInv'
<1> SUFFICES ASSUME ListsInv, OnceInv, Receive PROVE OnceInv'
  OBVIOUS
<1>1. ListTypes /\ Distinct(list) /\ Below(list, fresh) /\ pc = "asking"
  BY DEF ListsInv, OnceInv, Receive
<1>2. /\ server' = server /\ cap' = cap /\ tells' = tells /\ counts' = counts /\ list' = list
      /\ start' = start /\ added' = added /\ fresh' = fresh
      /\ got' = got \o Page
  BY DEF Receive, kind
<1>3. Calm' = Calm
  BY <1>2 DEF Calm, Reachable, Honest, Size, AtMost
<1>4. SUFFICES ASSUME Calm
               PROVE  Distinct(got') /\ (pc' = "asking" => NothingAhead')
  BY <1>1, <1>2, <1>3 DEF OnceInv
<1>5. /\ got \in Seq(Nat) /\ Page \in Seq(Nat) /\ Distinct(got) /\ Distinct(Page)
      /\ ToSet(got') = ToSet(got) \cup ToSet(Page)
  BY <1>1, <1>2, <1>4, PageFacts, PageItems, ConcatItems DEF ListTypes, OnceInv
<1>6. CASE server = "legacy"
  <2>1. got = <<>> /\ got' = Page
    BY <1>1, <1>2, <1>4, <1>5, <1>6 DEF OnceInv, NothingAhead
  <2>2. Len(list) <= LegacyLimit
    <3>1. Len(list) \in Nat /\ Len(start) \in Nat /\ added \in Nat
      BY <1>1, LenProperties DEF ListTypes
    <3>2. Len(list) <= Len(start) + added /\ Len(start) + added <= LegacyLimit
      BY <1>4, <1>6 DEF Calm, Reachable, Honest, Size, OnceInv
    <3>3. QED
      BY <3>1, <3>2, ListsAssumption
  <2>3. Len(Page) >= Len(list)
    <3>1. From = 0 /\ Size = LegacyLimit /\ Len(list) \in Nat
      BY <1>1, <1>6, LenProperties DEF From, Size, ListTypes
    <3>2. Len(Page) \in 0 .. Size
      BY <1>1, PageFacts
    <3>3. Len(list) > 0 => Len(Page) = Len(list)
      BY <1>1, <2>2, <3>1, PageFacts, ListsAssumption
    <3>4. QED
      BY <3>1, <3>2, <3>3
  <2>4. ASSUME NEW total \in Totals PROVE LastPage(Page, total)
    <3>1. Len(got) = 0
      BY <2>1, EmptySeq
    <3>2. Len(Page) \in Nat
      BY <1>5, LenProperties
    <3>3. total \in Nat /\ total <= Len(list) /\ Len(list) \in Nat
      BY <1>1, <1>4, <1>6, TotalFacts, LenProperties DEF Calm, ListTypes
    <3>4. QED
      BY <2>3, <3>1, <3>2, <3>3 DEF LastPage
  <2>5. pc' = "done"
    BY <2>4 DEF Receive
  <2>6. QED
    BY <1>5, <2>1, <2>5
<1>7. CASE server # "legacy"
  <2>1. \A x \in ToSet(got) : ~Behind(x, list, From)
    BY <1>1, <1>4, <1>7 DEF OnceInv, NothingAhead
  <2>2. \A x \in ToSet(Page) : Behind(x, list, From) /\ ~Behind(x, list, From + Size)
    BY <1>1, PageItems
  <2>3. Distinct(got')
    BY <1>2, <1>5, <2>1, <2>2, ConcatDistinct
  <2>4. /\ From \in Nat /\ Size \in Nat /\ From + Size \in Nat /\ From' \in Nat
        /\ From <= From + Size /\ From + Size <= From' /\ From <= From'
    BY <1>1, <1>7, SizeType, OffsetGrows
  <2>5. ASSUME NEW x \in ToSet(got') PROVE ~Behind(x, list, From')
    <3>1. CASE x \in ToSet(got)
      BY <1>1, <2>1, <2>4, <3>1, BehindSmaller DEF ListTypes
    <3>2. CASE x \in ToSet(Page)
      BY <1>1, <2>2, <2>4, <3>2, BehindSmaller DEF ListTypes
    <3>3. QED
      BY <1>5, <2>5, <3>1, <3>2
  <2>6. QED
    BY <1>2, <1>7, <2>3, <2>5 DEF NothingAhead
<1>8. QED
  BY <1>6, <1>7

(* The other steps. *)
LEMMA OnceOthers ==
  ListsInv /\ OnceInv /\ (Begin \/ Fail \/ Add \/ Delete \/ UNCHANGED vars) => OnceInv'
<1> SUFFICES ASSUME ListsInv, OnceInv, Begin \/ Fail \/ Add \/ Delete \/ UNCHANGED vars
             PROVE  OnceInv'
  OBVIOUS
<1>1. /\ ListTypes /\ Distinct(list) /\ Below(list, fresh)
      /\ Len(list) \in Nat /\ Len(start) \in Nat /\ added \in Nat /\ fresh \in Nat /\ From \in Nat
      /\ Len(list) <= Len(start) + added
  BY SizeType, LenProperties DEF ListsInv, ListTypes, OnceInv
<1>2. Len(<<>>) = 0 /\ Distinct(<<>>) /\ ToSet(<<>>) = {}
  BY EmptySeq DEF Distinct, ToSet
<1>3. CASE Begin
  <2>1. list' = list /\ start' = list /\ added' = 0 /\ fresh' = fresh /\ got' = <<>>
    BY <1>3 DEF Begin
  <2>2. NothingAhead'
    BY <1>2, <2>1 DEF NothingAhead
  <2>3. QED
    BY <1>1, <1>2, <2>1, <2>2 DEF OnceInv
<1>4. CASE Fail
  <2>1. /\ list' = list /\ start' = start /\ added' = added /\ fresh' = fresh
        /\ got' = <<>> /\ pc' # "asking"
    BY <1>4 DEF Fail
  <2>2. QED
    BY <1>1, <1>2, <2>1 DEF OnceInv
<1>5. CASE Add
  <2>1. PICK i \in 1 .. Len(list) + 1 : list' = InsertAt(list, i, fresh)
    BY <1>5 DEF Add
  <2>2. added' = added + 1 /\ fresh' = fresh + 1 /\ start' = start
    BY <1>5 DEF Add
  <2>3. Len(list') = Len(list) + 1
    BY <1>1, <2>1, InsertFacts DEF ListTypes
  <2>4. Distinct(list') /\ Below(list', fresh')
    BY <1>1, <2>1, <2>2, AddKeepsDistinct DEF ListTypes
  <2>5. ~Calm'
    BY <1>1, <2>2 DEF Calm
  <2>6. Len(list') <= Len(start') + added'
    BY <1>1, <2>2, <2>3
  <2>7. QED
    BY <2>4, <2>5, <2>6 DEF OnceInv
<1>6. CASE Delete
  <2>1. PICK i \in 1 .. Len(list) : list' = RemoveAt(list, i)
    BY <1>6 DEF Delete
  <2>2. /\ server' = server /\ cap' = cap /\ tells' = tells /\ counts' = counts
        /\ pc' = pc /\ pages' = pages /\ got' = got
        /\ added' = added /\ fresh' = fresh /\ start' = start
    BY <1>6 DEF Delete, kind, call
  <2>3. From' = From /\ Calm' = Calm
    BY <2>2 DEF From, Size, AtMost, Calm, Reachable, Honest
  <2>4. /\ Distinct(list') /\ Below(list', fresh)
        /\ \A x : Behind(x, list', From) => Behind(x, list, From)
    BY <1>1, <2>1, DeleteKeepsDistinct DEF ListTypes
  <2>5. Len(list') <= Len(start') + added'
    <3>1. Len(list') = Len(list) - 1
      BY <1>1, <2>1, RemoveFacts DEF ListTypes
    <3>2. QED
      BY <1>1, <2>2, <3>1
  <2>6. NothingAhead => NothingAhead'
    BY <2>2, <2>3, <2>4 DEF NothingAhead
  <2>7. QED
    BY <2>2, <2>3, <2>4, <2>5, <2>6 DEF OnceInv
<1>7. CASE UNCHANGED vars
  BY <1>7 DEF vars, OnceInv, Calm, NothingAhead, Reachable, Honest, From, Size, AtMost
<1>8. QED
  BY <1>3, <1>4, <1>5, <1>6, <1>7

(* No item is in a list twice, unless some item has been added since the   *)
(* call began: for every page size and list length, and however many items *)
(* are deleted where; from an old server, if its list is within its limit  *)
(* and it does not report more items than there are.                       *)
THEOREM Once == Spec => []EachOnceUnlessAdded
<1>1. OnceInv /\ ListsInv => EachOnceUnlessAdded
  <2> SUFFICES ASSUME OnceInv, ListsInv, Calm PROVE Distinct(got) /\ DOMAIN got = 1 .. Len(got)
    BY DEF EachOnceUnlessAdded, Calm, Distinct
  <2>1. QED
    BY LenProperties DEF OnceInv, ListsInv, ListTypes
<1>2. ListsInv /\ OnceInv /\ [Next]_vars => OnceInv'
  BY OnceReceive, OnceOthers DEF Next
<1>3. QED
  BY <1>1, <1>2, OnceInit, AlwaysListsInv, PTL DEF Spec
=============================================================================
