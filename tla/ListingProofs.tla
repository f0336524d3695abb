----------------------------- MODULE ListingProofs -----------------------------
(***************************************************************************)
(* What holds of the pages of Listing for any number of documents, any     *)
(* numbers in the query string and any writes meanwhile.                   *)
(***************************************************************************)
EXTENDS Listing, FiniteSetTheorems, WellFoundedInduction, TLAPS

USE ListingAssumption DEF ListingAssumption

------------------------------------------------------------------------------
(* Counting documents.                                                     *)

(* Record ids are positive numbers.                                        *)
LEMMA DocumentNumbers == \A d \in Documents : d \in Nat /\ d > 0 /\ d <= MaxDocuments
  BY DEF Documents

(* A set of documents is finite.                                           *)
LEMMA DocumentsFinite ==
  ASSUME NEW S \in SUBSET Documents
  PROVE  /\ IsFiniteSet(S) /\ Cardinality(S) \in 0 .. MaxDocuments
         /\ Cardinality(S) = 0 => S = {}
<1>1. IsFiniteSet(Documents) /\ Cardinality(Documents) = MaxDocuments
  BY FS_Interval DEF Documents
<1>2. IsFiniteSet(S) /\ Cardinality(S) <= MaxDocuments
  BY <1>1, FS_Subset
<1>3. QED
  BY <1>1, <1>2, FS_CardinalityType, FS_EmptySet

(* A set that contains another one has as many elements, or more.          *)
LEMMA MoreDocuments ==
  ASSUME NEW T \in SUBSET Documents, NEW S \in SUBSET T
  PROVE  Cardinality(S) <= Cardinality(T)
  BY DocumentsFinite, FS_Subset

(* One document more, and one less.                                        *)
LEMMA OneMore ==
  ASSUME NEW S \in SUBSET Documents, NEW d \in Documents
  PROVE  /\ Cardinality(S \cup {d}) = IF d \in S THEN Cardinality(S) ELSE Cardinality(S) + 1
         /\ Cardinality(S \ {d}) = IF d \in S THEN Cardinality(S) - 1 ELSE Cardinality(S)
  BY DocumentsFinite, FS_AddElement, FS_RemoveElement

(* The first of some documents.                                            *)
LEMMA FirstDocument ==
  ASSUME NEW S \in SUBSET Documents, S # {}
  PROVE  Min(S) \in S /\ \A d \in S : Min(S) <= d
<1> DEFINE R == OpToRel(<, Nat)
<1>1. S \subseteq Nat
  BY DEF Documents
<1>2. \E x \in S : \A y \in S : ~(<<y, x>> \in R)
  <2> HIDE DEF R
  <2>1. IsWellFoundedOn(R, Nat)
    BY NatLessThanWellFounded DEF R
  <2>2. QED
    BY <1>1, <2>1, WFMin
<1>3. \A x, y \in Nat : y < x => <<y, x>> \in R
  BY DEF OpToRel
<1>4. PICK x \in S : \A y \in S : ~(<<y, x>> \in R)
  BY <1>2
<1> HIDE DEF R
<1>5. \A y \in S : x <= y
  <2> SUFFICES ASSUME NEW y \in S, ~(x <= y)
               PROVE  FALSE
    OBVIOUS
  <2>1. x \in Nat /\ y \in Nat /\ y < x
    BY <1>1
  <2>2. QED
    BY <1>3, <1>4, <2>1
<1>6. QED
  BY <1>5 DEF Min

(* How many documents of S come no later than n.                           *)
Rank(S, n) == Cardinality({d \in S : d <= n})

(* A rank is a number of documents.                                        *)
LEMMA RankType ==
  ASSUME NEW S \in SUBSET Documents, NEW n \in Nat
  PROVE  Rank(S, n) \in Nat /\ Rank(S, n) <= Cardinality(S) /\ Rank(S, 0) = 0
<1>1. {d \in S : d <= n} \in SUBSET S
  OBVIOUS
<1>2. ASSUME NEW d \in S PROVE ~(d <= 0)
  BY DocumentNumbers
<1>3. {d \in S : d <= 0} = {}
  BY <1>2
<1>4. QED
  BY <1>1, <1>3, DocumentsFinite, MoreDocuments, FS_EmptySet DEF Rank

(* A later document has a higher rank.                                     *)
LEMMA RankGrows ==
  ASSUME NEW S \in SUBSET Documents, NEW m \in Nat, NEW n \in Nat, m <= n
  PROVE  Rank(S, m) <= Rank(S, n) /\ (m < n /\ n \in S => Rank(S, m) < Rank(S, n))
<1> DEFINE M == {d \in S : d <= m}
           N == {d \in S : d <= n}
<1>1. M \in SUBSET N /\ N \in SUBSET Documents
  <2>1. ASSUME NEW d \in M PROVE d \in N
    BY DocumentNumbers
  <2>2. QED
    BY <2>1
<1>2. Cardinality(M) <= Cardinality(N)
  BY <1>1, MoreDocuments
<1>3. ASSUME m < n, n \in S PROVE Cardinality(M) < Cardinality(N)
  <2>1. n \notin M /\ M \cup {n} \in SUBSET N /\ n \in Documents /\ M \in SUBSET Documents
    BY <1>1, <1>3
  <2>2. Cardinality(M \cup {n}) = Cardinality(M) + 1
    BY <2>1, OneMore
  <2>3. Cardinality(M \cup {n}) <= Cardinality(N)
    BY <1>1, <2>1, MoreDocuments
  <2>4. QED
    BY <1>1, <2>1, <2>2, <2>3, DocumentsFinite
<1>4. QED
  BY <1>2, <1>3 DEF Rank

(* The next document has the next rank.                                    *)
LEMMA RankNext ==
  ASSUME NEW S \in SUBSET Documents, NEW c \in Nat, {d \in S : d > c} # {}
  PROVE  LET n == Min({d \in S : d > c})
         IN  n \in S /\ n > c /\ Rank(S, n) = Rank(S, c) + 1 /\ \A d \in S : d <= n => d <= c \/ d = n
<1> DEFINE n == Min({d \in S : d > c})
<1>1. n \in S /\ n > c /\ \A d \in S : d > c => n <= d
  BY FirstDocument
<1> HIDE DEF n
<1>2. n \in Nat /\ \A d \in S : d \in Nat
  BY <1>1, DocumentNumbers
<1>3. \A d \in S : d <= n => d <= c \/ d = n
  BY <1>1, <1>2
<1>4. {d \in S : d <= n} = {d \in S : d <= c} \cup {n} /\ n \notin {d \in S : d <= c}
  <2>1. \A d \in S : d <= n <=> d <= c \/ d = n
    BY <1>1, <1>2, <1>3
  <2>2. ~(n <= c)
    BY <1>1, <1>2
  <2>3. QED
    BY <1>1, <2>1, <2>2
<1>5. Cardinality({d \in S : d <= c} \cup {n}) = Cardinality({d \in S : d <= c}) + 1
  BY <1>1, <1>4, OneMore
<1>6. QED
  BY <1>1, <1>3, <1>4, <1>5 DEF Rank, n

(* Behind the last document there is none.                                 *)
LEMMA RankLast ==
  ASSUME NEW S \in SUBSET Documents, NEW c \in Nat, {d \in S : d > c} = {}
  PROVE  Rank(S, c) = Cardinality(S) /\ \A d \in S : d <= c
<1>1. \A d \in S : d <= c
  BY DEF Documents
<1>2. {d \in S : d <= c} = S
  BY <1>1
<1>3. QED
  BY <1>1, <1>2 DEF Rank

(* What an insert and a delete do to the ranks.                            *)
LEMMA RankWrites ==
  ASSUME NEW S \in SUBSET Documents, NEW d \in Documents, NEW n \in Nat
  PROVE  /\ d \notin S => Rank(S \cup {d}, n) = IF d <= n THEN Rank(S, n) + 1 ELSE Rank(S, n)
         /\ d \in S => Rank(S \ {d}, n) = IF d <= n THEN Rank(S, n) - 1 ELSE Rank(S, n)
<1> DEFINE N == {e \in S : e <= n}
<1>1. N \in SUBSET Documents
  OBVIOUS
<1>2. /\ {e \in S \cup {d} : e <= n} = IF d <= n THEN N \cup {d} ELSE N
      /\ {e \in S \ {d} : e <= n} = IF d <= n THEN N \ {d} ELSE N
  OBVIOUS
<1>3. d <= n => (d \in N <=> d \in S)
  OBVIOUS
<1>4. QED
  BY <1>1, <1>2, <1>3, OneMore DEF Rank

(* No two documents of S have the same rank.                               *)
LEMMA RankIdentifies ==
  ASSUME NEW S \in SUBSET Documents, NEW d \in S, NEW e \in S, Rank(S, d) = Rank(S, e)
  PROVE  d = e
<1>1. d \in Nat /\ e \in Nat
  BY DEF Documents
<1>2. CASE d < e
  BY <1>1, <1>2, RankGrows, RankType
<1>3. CASE e < d
  BY <1>1, <1>3, RankGrows, RankType
<1>4. QED
  BY <1>1, <1>2, <1>3

(* At most k documents have one of k ranks.                                *)
LEMMA RankSlice ==
  ASSUME NEW S \in SUBSET Documents, NEW T \in SUBSET S, NEW n \in Nat, NEW k \in Nat
  PROVE  Cardinality({d \in T : Rank(S, d) <= n + k}) <=
           Cardinality({d \in T : Rank(S, d) <= n}) + k
<1> DEFINE Low == {d \in T : Rank(S, d) <= n}
           High == {d \in T : Rank(S, d) <= n + k}
           Slice == High \ Low
           f == [d \in Slice |-> Rank(S, d)]
<1>1. \A d \in T : d \in Documents /\ d \in Nat /\ Rank(S, d) \in Nat
  BY RankType, DocumentNumbers
<1>2. f \in Injection(Slice, (n + 1) .. (n + k))
  <2>1. \A d \in Slice : Rank(S, d) \in (n + 1) .. (n + k)
    BY <1>1
  <2>2. \A d, e \in Slice : Rank(S, d) = Rank(S, e) => d = e
    BY RankIdentifies
  <2>3. QED
    BY <2>1, <2>2 DEF Injection, IsInjective
<1>3. IsFiniteSet((n + 1) .. (n + k)) /\ Cardinality((n + 1) .. (n + k)) = k
  <2>1. n + 1 \in Int /\ n + k \in Int
    OBVIOUS
  <2>2. IsFiniteSet((n + 1) .. (n + k)) /\ Cardinality((n + 1) .. (n + k)) =
          IF n + 1 > n + k THEN 0 ELSE (n + k) - (n + 1) + 1
    BY <2>1, FS_Interval
  <2>3. QED
    BY <2>2
<1>4. Cardinality(Slice) <= k
  BY <1>2, <1>3, FS_Injection
<1>5. Low \in SUBSET High /\ High \in SUBSET Documents
  BY <1>1
<1>6. IsFiniteSet(High) /\ IsFiniteSet(Low)
  BY <1>5, DocumentsFinite
<1>7. Cardinality(Slice) = Cardinality(High) - Cardinality(High \cap Low)
  BY <1>6, FS_Difference
<1>8. High \cap Low = Low
  BY <1>5
<1>9. Cardinality(High) \in Nat /\ Cardinality(Low) \in Nat
  BY <1>6, FS_CardinalityType
<1>10. Cardinality(High) <= Cardinality(Low) + k
  <2> HIDE DEF High, Low, Slice
  <2>1. Cardinality(Slice) \in Nat
    BY <1>6, FS_Difference, FS_CardinalityType DEF Slice
  <2>2. Cardinality(Slice) = Cardinality(High) - Cardinality(Low)
    BY <1>7, <1>8
  <2>3. QED
    BY <1>4, <1>9, <2>1, <2>2
<1>11. QED
  BY <1>10

------------------------------------------------------------------------------
(* Parameters.                                                             *)

(* PageParams gives the page and the size that are wanted, and what is     *)
(* skipped are the pages before: nothing wraps.                            *)
LEMMA WantedParams ==
  ASSUME NEW page \in Params, NEW size \in Params
  PROVE  /\ Page(page) = WantedPage(page) /\ Page(page) \in Numbers \ {0}
         /\ Size(size) = WantedSize(size) /\ Size(size) \in 1 .. MaxSize
         /\ Skip(Page(page), Size(size)) = Before(page, size)
         /\ Before(page, size) \in Nat
<1> USE DEF Params, Numbers
<1>1. 0 \in Numbers /\ 1 \in Numbers /\ Absent # 0
  OBVIOUS
<1>2. Page(page) = WantedPage(page) /\ Page(page) \in Numbers \ {0}
  <2>1. CASE page = Absent
    BY <1>1, <2>1 DEF Page, WantedPage, LargerOf, DefaultPage
  <2>2. CASE page \in Numbers
    <3>1. page # Absent /\ page \in Nat
      BY <2>2
    <3>2. Page(page) = LargerOf(page, 1) /\ WantedPage(page) = IF page = 0 THEN 1 ELSE page
      BY <1>1, <3>1 DEF Page, WantedPage
    <3>3. QED
      BY <1>1, <2>2, <3>1, <3>2 DEF LargerOf
  <2>3. QED
    BY <2>1, <2>2
<1>3. Size(size) = WantedSize(size) /\ Size(size) \in 1 .. MaxSize
  <2>1. CASE size = Absent
    BY <2>1 DEF Size, WantedSize, LargerOf, SmallerOf
  <2>2. CASE size \in Numbers
    <3>1. size # Absent /\ size \in Nat
      BY <2>2
    <3>2. Size(size) = SmallerOf(LargerOf(size, 1), MaxSize)
      BY <3>1 DEF Size
    <3>3. WantedSize(size) = IF size = 0 THEN 1 ELSE IF size <= MaxSize THEN size ELSE MaxSize
      BY <3>1 DEF WantedSize
    <3>4. QED
      BY <3>1, <3>2, <3>3 DEF LargerOf, SmallerOf
  <2>3. QED
    BY <2>1, <2>2
<1>4. (Page(page) - 1) % (MaxNumber + 1) = Page(page) - 1
  BY <1>2
<1>5. Skip(Page(page), Size(size)) = Before(page, size)
  BY <1>2, <1>3, <1>4 DEF Skip, Before
<1>6. Before(page, size) \in Nat
  <2>1. \A a, b \in Nat : a * b \in Nat
    OBVIOUS
  <2>2. WantedPage(page) - 1 \in Nat /\ WantedSize(size) \in Nat
    BY <1>2, <1>3
  <2>3. QED
    BY <2>1, <2>2 DEF Before
<1>7. QED
  BY <1>2, <1>3, <1>5, <1>6

(* The next page begins where this one ends.                               *)
LEMMA NextParams ==
  ASSUME NEW page \in Params, NEW size \in Params, Page(page) + 1 \in Numbers
  PROVE  /\ Page(page) + 1 \in Params /\ Size(size) \in Params
         /\ Size(Size(size)) = Size(size)
         /\ Before(Page(page) + 1, Size(size)) = Before(page, size) + Size(size)
<1> USE DEF Params
<1>1. /\ Page(page) = WantedPage(page) /\ Page(page) \in Numbers \ {0}
      /\ Size(size) = WantedSize(size) /\ Size(size) \in 1 .. MaxSize
  BY WantedParams
<1>2. Size(size) \in Numbers /\ Page(page) \in Nat /\ Page(page) + 1 # 0 /\ Size(size) # 0
  BY <1>1 DEF Numbers
<1>3. Page(page) + 1 # Absent /\ Size(size) # Absent
  BY <1>2
<1>4. WantedPage(Page(page) + 1) = Page(page) + 1
  BY <1>2, <1>3 DEF WantedPage
<1>5. WantedSize(Size(size)) = Size(size)
  BY <1>1, <1>2, <1>3 DEF WantedSize
<1>6. Before(Page(page) + 1, Size(size)) = ((Page(page) + 1) - 1) * Size(size)
  BY <1>4, <1>5 DEF Before
<1>7. Before(page, size) = (Page(page) - 1) * Size(size)
  BY <1>1 DEF Before
<1>8. \A a, b \in Nat : ((a + 1) - 1) * b = (a - 1) * b + b
  OBVIOUS
<1>9. Size(size) \in Nat
  BY <1>1
<1>10. Before(Page(page) + 1, Size(size)) = Before(page, size) + Size(size)
  BY <1>2, <1>6, <1>7, <1>8, <1>9
<1>11. Size(Size(size)) = Size(size)
  BY <1>2, <1>5, WantedParams
<1>12. QED
  BY <1>2, <1>10, <1>11

------------------------------------------------------------------------------
(* Types, and what the histories count.                                    *)

(* The documents the request asks about.                                   *)
All == Collected(ask.filter)

(* Those the pages before this one hold.                                   *)
Offset == Before(ask.page, ask.size)

Shape ==
  /\ TypeOK
  /\ toSkip <= Offset
  /\ items # {} => toSkip = 0
  /\ cursor # 0 => cursor \notin fresh /\ Matches(cursor, ask.filter)
  /\ at = "find" => total = 0 /\ \A d \in items : d <= cursor
  /\ at = "count" => total <= cursor
  /\ \A d \in items \cup shown \cup start : d \notin fresh /\ Matches(d, ask.filter)
  /\ late <= Cardinality(Documents \ fresh)
  /\ gone <= Cardinality(Documents \ (docs \cup fresh))

(* The documents asked about, and those ahead of the cursor.               *)
LEMMA AllDocuments ==
  ASSUME TypeOK
  PROVE  /\ All \in SUBSET Documents
         /\ Ahead = {d \in All : d > cursor}
         /\ \A d \in Documents : d \in All <=> d \in docs /\ Matches(d, ask.filter)
         /\ cursor \in Nat
  BY DocumentNumbers DEF TypeOK, All, Collected, Ahead, Matches

(* What the cursor meets next.                                             *)
LEMMA CursorMoves ==
  ASSUME TypeOK, NEW n, Ahead # {}, n = Min(Ahead)
  PROVE  /\ n \in All /\ n \in Documents /\ n > cursor
         /\ n \notin fresh /\ Matches(n, ask.filter)
         /\ Rank(All, n) = Rank(All, cursor) + 1
         /\ \A d \in All : d <= n => d <= cursor \/ d = n
<1>1. /\ All \in SUBSET Documents /\ cursor \in Nat /\ Ahead = {d \in All : d > cursor}
      /\ \A d \in Documents : d \in All <=> d \in docs /\ Matches(d, ask.filter)
  BY AllDocuments
<1>2. n = Min({d \in All : d > cursor}) /\ {d \in All : d > cursor} # {}
  BY <1>1
<1>3. /\ n \in All /\ n > cursor /\ Rank(All, n) = Rank(All, cursor) + 1
      /\ \A d \in All : d <= n => d <= cursor \/ d = n
  BY <1>1, <1>2, RankNext
<1>4. QED
  BY <1>1, <1>3 DEF TypeOK

(* A request starts from the first document.                               *)
LEMMA RequestStarts ==
  ASSUME TypeOK, StartWalk(ask'.filter, ask'.page, ask'.size) \/ NextPage \/ Retry,
         ask'.filter \in Filters, ask'.page \in Params, ask'.size \in Params
  PROVE  /\ at' = "find" /\ toSkip' = Offset' /\ Offset' \in Nat /\ cursor' = 0
         /\ items' = {} /\ total' = 0 /\ quiet' = TRUE /\ lost' = 0
         /\ UNCHANGED <<docs, fresh>>
         /\ ask' \in [filter : Filters, page : Params, size : Params]
         /\ Page(ask'.page) \in Numbers \ {0} /\ Size(ask'.size) \in 1 .. MaxSize
<1>1. /\ at' = "find" /\ toSkip' = Skip(Page(ask'.page), Size(ask'.size)) /\ cursor' = 0
      /\ items' = {} /\ total' = 0 /\ quiet' = TRUE /\ lost' = 0 /\ UNCHANGED <<docs, fresh>>
      /\ ask' = [filter |-> ask'.filter, page |-> ask'.page, size |-> ask'.size]
  BY DEF StartWalk, NextPage, Retry, Request, collection
<1>2. QED
  BY <1>1, WantedParams DEF Offset

(* What each kind of request asks for.                                     *)
LEMMA RequestAsks ==
  ASSUME TypeOK, User
  PROVE  /\ ask'.filter \in Filters /\ ask'.page \in Params /\ ask'.size \in Params
         /\ \/ StartWalk(ask'.filter, ask'.page, ask'.size)
            \/ /\ NextPage /\ ask'.filter = ask.filter
               /\ Offset' = Offset + Size(ask.size)
            \/ Retry /\ ask' = ask
<1>1. CASE \E filter \in Filters, page, size \in Params : StartWalk(filter, page, size)
  BY <1>1 DEF StartWalk, Request
<1>2. CASE NextPage
  BY <1>2, NextParams DEF TypeOK, NextPage, Request, Offset
<1>3. CASE Retry
  BY <1>3 DEF TypeOK, Retry, Request
<1>4. QED
  BY <1>1, <1>2, <1>3 DEF User

(* It holds at the beginning.                                              *)
LEMMA InitShape == Init => Shape
<1> SUFFICES ASSUME Init
             PROVE  Shape
  OBVIOUS
<1>1. ask \in [filter : Filters, page : Params, size : Params]
  BY DEF Init, Filters, Params
<1>2. Page(ask.page) \in Numbers \ {0} /\ Size(ask.size) \in 1 .. MaxSize /\ 0 <= Offset
  BY <1>1, WantedParams DEF Offset
<1>3. Cardinality(items) = 0 /\ Cardinality(Documents \ fresh) \in Nat
      /\ Cardinality(Documents \ (docs \cup fresh)) \in Nat
  BY DocumentsFinite, FS_EmptySet DEF Init
<1>4. QED
  BY <1>1, <1>2, <1>3 DEF Init, Shape, TypeOK

(* A call goes on.                                                         *)
LEMMA HandlerShape == ASSUME Shape, Handler PROVE Shape'
<1> USE DEF Shape
<1>1. CASE FindSkips
  <2>1. /\ cursor' \in Documents /\ cursor' \notin fresh /\ Matches(cursor', ask.filter)
        /\ cursor' > cursor /\ toSkip' \in Nat /\ toSkip' <= toSkip
    BY <1>1, CursorMoves DEF TypeOK, FindSkips
  <2>2. \A d \in items : d <= cursor'
    BY <1>1, <2>1 DEF FindSkips, TypeOK
  <2>3. Offset' = Offset /\ Offset \in Nat /\ toSkip' <= Offset
    BY <1>1, <2>1, WantedParams DEF TypeOK, FindSkips, Offset
  <2>4. QED
    BY <1>1, <2>1, <2>2, <2>3 DEF TypeOK, FindSkips, collection, walk
<1>2. CASE FindTakes
  <2>1. /\ cursor' \in Documents /\ cursor' \notin fresh /\ Matches(cursor', ask.filter)
        /\ cursor' > cursor /\ items' = items \cup {cursor'}
    BY <1>2, CursorMoves DEF TypeOK, FindTakes
  <2>2. Cardinality(items') = Cardinality(items) + 1
    <3>1. cursor' \notin items
      BY <1>2, <2>1, DocumentNumbers DEF TypeOK, FindTakes
    <3>2. QED
      BY <2>1, <3>1, OneMore DEF TypeOK
  <2>3. Cardinality(items') <= Size(ask.size)
    <3>1. Cardinality(items) < Size(ask.size) /\ Cardinality(items) \in Nat
      BY <1>2, DocumentsFinite DEF TypeOK, FindTakes, Room
    <3>2. QED
      BY <2>2, <3>1 DEF TypeOK
  <2>4. \A d \in items' : d <= cursor'
    BY <1>2, <2>1, DocumentNumbers DEF FindTakes, TypeOK
  <2>5. QED
    BY <1>2, <2>1, <2>3, <2>4 DEF TypeOK, FindTakes, collection, walk, Offset
<1>3. CASE FindEnds \/ Answer \/ CallFails
  BY <1>3 DEF TypeOK, FindEnds, Answer, CallFails, collection, walk, Offset
<1>4. CASE CountDocument
  <2>1. /\ cursor' \in Documents /\ cursor' \notin fresh /\ Matches(cursor', ask.filter)
        /\ cursor' > cursor
    BY <1>4, CursorMoves DEF TypeOK, CountDocument
  <2>2. cursor' \in Nat /\ cursor' <= MaxDocuments /\ cursor \in Nat
    BY <2>1, AllDocuments, DocumentNumbers
  <2>3. QED
    BY <1>4, <2>1, <2>2 DEF TypeOK, CountDocument, collection, walk, Offset
<1>5. QED
  BY <1>1, <1>2, <1>3, <1>4 DEF Handler

(* A request comes.                                                        *)
LEMMA UserShape == ASSUME Shape, User PROVE Shape'
<1> USE DEF Shape
<1>1. TypeOK
  OBVIOUS
<1>2. /\ at' = "find" /\ toSkip' = Offset' /\ Offset' \in Nat /\ cursor' = 0
      /\ items' = {} /\ total' = 0 /\ quiet' = TRUE /\ lost' = 0 /\ UNCHANGED <<docs, fresh>>
      /\ ask' \in [filter : Filters, page : Params, size : Params]
      /\ Page(ask'.page) \in Numbers \ {0} /\ Size(ask'.size) \in 1 .. MaxSize
  BY <1>1, RequestAsks, RequestStarts
<1>3. Cardinality(items') = 0
  BY <1>2, FS_EmptySet
<1>4. CASE StartWalk(ask'.filter, ask'.page, ask'.size)
  <2>1. start' \subseteq docs /\ \A d \in start' : Matches(d, ask'.filter)
    BY <1>4 DEF StartWalk, Behind, Collected, Matches
  <2>2. shown' = {} /\ late' = 0 /\ gone' = 0
    BY <1>4 DEF StartWalk
  <2>3. 0 <= Cardinality(Documents \ fresh) /\ 0 <= Cardinality(Documents \ (docs \cup fresh))
    BY DocumentsFinite
  <2>4. \A d \in start' : d \in Documents /\ d \notin fresh
    BY <2>1 DEF TypeOK
  <2>5. QED
    BY <1>2, <1>3, <2>1, <2>2, <2>3, <2>4 DEF TypeOK
<1>5. CASE (NextPage \/ Retry) /\ ask'.filter = ask.filter
  <2>1. shown' \subseteq shown \cup items /\ UNCHANGED <<start, late, gone>>
    BY <1>5 DEF NextPage, Retry, walk
  <2>2. QED
    BY <1>2, <1>3, <1>5, <2>1 DEF TypeOK
<1>6. QED
  BY <1>1, <1>4, <1>5, RequestAsks

(* What an insert and a delete change.                                     *)
LEMMA WriteEffects ==
  ASSUME TypeOK, NEW d \in Documents
  PROVE  /\ Insert(d) =>
              /\ d \notin All /\ d \in fresh
              /\ All' = IF Matches(d, ask.filter) THEN All \cup {d} ELSE All
         /\ Delete(d) =>
              /\ d \in docs /\ (Matches(d, ask.filter) <=> d \in All)
              /\ All' = IF Matches(d, ask.filter) THEN All \ {d} ELSE All
<1>1. ASSUME Insert(d)
      PROVE  /\ d \notin All /\ d \in fresh
             /\ All' = IF Matches(d, ask.filter) THEN All \cup {d} ELSE All
  BY <1>1 DEF TypeOK, Insert, request, All, Collected, Matches
<1>2. ASSUME Delete(d)
      PROVE  /\ d \in docs /\ (Matches(d, ask.filter) <=> d \in All)
             /\ All' = IF Matches(d, ask.filter) THEN All \ {d} ELSE All
  BY <1>2 DEF TypeOK, Delete, request, All, Collected, Matches
<1>3. QED
  BY <1>1, <1>2

(* Others write.                                                           *)
LEMMA OthersShape == ASSUME Shape, NEW d \in Documents, Insert(d) \/ Delete(d) PROVE Shape'
<1> USE DEF Shape
<1>1. CASE Insert(d)
  <2>1. Cardinality(Documents \ fresh') = Cardinality(Documents \ fresh) + 1
    <3>1. Documents \ fresh' = (Documents \ fresh) \cup {d} /\ d \in fresh
      BY <1>1 DEF Insert
    <3>2. QED
      BY <3>1, OneMore
  <2>2. late' \in {late, late + 1} /\ late' <= Cardinality(Documents \ fresh')
    BY <1>1, <2>1, DocumentsFinite DEF TypeOK, Insert
  <2>3. late' \in 0 .. MaxDocuments
    BY <2>2, DocumentsFinite DEF TypeOK
  <2>4. docs' \cup fresh' = docs \cup fresh
    BY <1>1 DEF Insert
  <2>5. QED
    BY <1>1, <2>2, <2>3, <2>4 DEF TypeOK, Insert, request, Offset
<1>2. CASE Delete(d)
  <2>1. Cardinality(Documents \ (docs' \cup fresh')) = Cardinality(Documents \ (docs \cup fresh)) + 1
    <3>1. Documents \ (docs' \cup fresh') = (Documents \ (docs \cup fresh)) \cup {d} /\ d \in docs
      BY <1>2 DEF TypeOK, Delete
    <3>2. QED
      BY <3>1, OneMore
  <2>2. gone' \in {gone, gone + 1} /\ gone' <= Cardinality(Documents \ (docs' \cup fresh'))
        /\ lost' \in 0 .. gone'
    BY <1>2, <2>1, DocumentsFinite DEF TypeOK, Delete
  <2>3. gone' \in 0 .. MaxDocuments
    BY <2>2, DocumentsFinite DEF TypeOK
  <2>4. QED
    BY <1>2, <2>2, <2>3 DEF TypeOK, Delete, request, Offset
<1>3. QED
  BY <1>1, <1>2

(* Every step keeps it.                                                    *)
LEMMA NextShape == Shape /\ [Next]_vars => Shape'
<1>1. CASE UNCHANGED vars
  BY <1>1 DEF Shape, TypeOK, vars, collection, request, walk, Offset
<1>2. QED
  BY <1>1, HandlerShape, UserShape, OthersShape DEF Next, Others

(* The invariant of the types and the histories.                           *)
THEOREM ShapeCorrect == Spec => []Shape
  BY InitShape, NextShape, PTL DEF Spec

(* The types hold for any number of documents, any numbers in the query    *)
(* string and any writes meanwhile (PageParams).                           *)
THEOREM TypeCorrect == Spec => []TypeOK
<1>1. Shape => TypeOK
  BY DEF Shape
<1>2. QED
  BY <1>1, ShapeCorrect, PTL

------------------------------------------------------------------------------
(* Repeats.                                                                *)

(* How many documents the running find has met.                            *)
Met == Offset - toSkip + Cardinality(items)

(* The cursor has passed no more than find has met and what came late.  A  *)
(* document shown before ranks within the pages before, but for late ones; *)
(* before the cursor reaches it there is room for no more.                 *)
Repeats ==
  /\ Cardinality(items \cap shown) <= late
  /\ \A m \in shown : Rank(All, m) <= Offset + late
  /\ \A m \in items : Rank(All, m) <= Offset + Cardinality(items) + late
  /\ at = "find" =>
       /\ Rank(All, cursor) <= Met + late
       /\ \A m \in shown :
            cursor < m => Met + Rank(All, m) - Rank(All, cursor) <= Offset + late

(* The counts are numbers.                                                 *)
LEMMA Counts ==
  ASSUME Shape
  PROVE  /\ Offset \in Nat /\ toSkip \in Nat /\ late \in Nat /\ lost \in Nat /\ gone \in Nat
         /\ Cardinality(items) \in Nat /\ Met \in Nat /\ total \in Nat
         /\ Cardinality(items \cap shown) \in Nat
         /\ Cardinality(items \cap shown) <= Cardinality(items)
         /\ Size(ask.size) \in Nat \ {0} /\ cursor \in Nat
         /\ All \in SUBSET Documents /\ Cardinality(All) \in Nat
         /\ \A n \in Nat : Rank(All, n) \in Nat
<1>1. /\ items \in SUBSET Documents /\ items \cap shown \in SUBSET items
      /\ toSkip \in Nat /\ late \in Nat /\ gone \in Nat /\ lost \in Nat /\ total \in Nat
      /\ Size(ask.size) \in Nat \ {0} /\ toSkip <= Offset
  BY DEF Shape, TypeOK
<1>2. Offset \in Nat
  BY WantedParams DEF Shape, TypeOK, Offset
<1>3. /\ Cardinality(items) \in Nat /\ Cardinality(items \cap shown) \in Nat
      /\ Cardinality(items \cap shown) <= Cardinality(items)
  BY <1>1, DocumentsFinite, MoreDocuments
<1>4. All \in SUBSET Documents /\ cursor \in Nat /\ Cardinality(All) \in Nat
  BY AllDocuments, DocumentsFinite DEF Shape
<1>5. \A n \in Nat : Rank(All, n) \in Nat
  BY <1>4, RankType
<1>6. QED
  BY <1>1, <1>2, <1>3, <1>4, <1>5 DEF Met

(* Documents of the page and of pages before are numbered.                 *)
LEMMA ShownNumbers ==
  ASSUME Shape
  PROVE  \A m \in items \cup shown \cup start :
           m \in Documents /\ m \in Nat /\ m \notin fresh /\ Matches(m, ask.filter)
  BY DocumentNumbers DEF Shape, TypeOK

(* What find does to the counts.                                           *)
LEMMA FindCounts ==
  ASSUME Shape, FindSkips \/ FindTakes
  PROVE  /\ at = "find" /\ at' = "find" /\ cursor' > cursor /\ cursor' \in All
         /\ UNCHANGED <<ask, shown, start, late, gone, lost, quiet, docs, fresh>>
         /\ UNCHANGED <<All, Offset>>
         /\ Rank(All, cursor') = Rank(All, cursor) + 1
         /\ \A d \in All : d <= cursor' => d <= cursor \/ d = cursor'
         /\ Met' = Met + 1 /\ Met' \in Nat
         /\ \/ /\ toSkip > 0 /\ toSkip' = toSkip - 1 /\ items = {} /\ items' = items
            \/ /\ toSkip = 0 /\ toSkip' = 0 /\ cursor' \notin items
               /\ items' = items \cup {cursor'}
               /\ Cardinality(items') = Cardinality(items) + 1
               /\ Cardinality(items) < Size(ask.size)
<1>1. TypeOK
  BY DEF Shape
<1>2. Ahead # {} /\ cursor' = Min(Ahead) /\ at = "find"
  BY DEF FindSkips, FindTakes
<1>3. /\ cursor' \in All /\ cursor' > cursor /\ cursor' \in Documents
      /\ Rank(All, cursor') = Rank(All, cursor) + 1
      /\ \A d \in All : d <= cursor' => d <= cursor \/ d = cursor'
  BY <1>1, <1>2, CursorMoves
<1>4. /\ UNCHANGED <<ask, shown, start, late, gone, lost, quiet, docs, fresh, at>>
  BY DEF FindSkips, FindTakes, collection, walk
<1>5. UNCHANGED <<All, Offset>>
  BY <1>4 DEF All, Collected, Offset
<1>6. CASE FindSkips
  BY <1>2, <1>3, <1>4, <1>5, <1>6, Counts DEF Shape, FindSkips, Met
<1>7. CASE FindTakes
  <2>1. cursor' \notin items
    BY <1>2, <1>3, ShownNumbers, Counts DEF Shape
  <2>2. Cardinality(items') = Cardinality(items) + 1
    BY <1>3, <1>7, <2>1, OneMore DEF FindTakes, TypeOK, Shape
  <2>3. Cardinality(items) < Size(ask.size)
    BY <1>7, Counts DEF FindTakes, Room
  <2>4. Met' = Met + 1 /\ Met' \in Nat
    BY <1>5, <1>7, <2>2, Counts DEF FindTakes, Met
  <2>5. QED
    BY <1>2, <1>3, <1>4, <1>5, <1>7, <2>1, <2>2, <2>3, <2>4 DEF FindTakes
<1>8. QED
  BY <1>6, <1>7

(* A request begins with nothing met.                                      *)
LEMMA RequestCounts ==
  ASSUME Shape, Shape', User
  PROVE  /\ at' = "find" /\ toSkip' = Offset' /\ Offset' \in Nat /\ cursor' = 0
         /\ items' = {} /\ lost' = 0 /\ docs' = docs
         /\ Met' = 0 /\ Rank(All', 0) = 0 /\ All' \in SUBSET Documents
<1>1. /\ at' = "find" /\ toSkip' = Offset' /\ Offset' \in Nat /\ cursor' = 0 /\ items' = {}
      /\ lost' = 0 /\ docs' = docs
  BY RequestAsks, RequestStarts DEF Shape
<1>2. Cardinality(items') = 0
  BY <1>1, FS_EmptySet
<1>3. Met' = Offset' - toSkip' + Cardinality(items')
  BY DEF Met
<1>4. \A a, b, c : a \in Nat /\ b = a /\ c = 0 => a - b + c = 0
  OBVIOUS
<1>5. Met' = 0
  BY <1>1, <1>2, <1>3, <1>4, Zenon
<1>6. All' \in SUBSET Documents
  BY <1>1 DEF All, Collected, Shape, TypeOK
<1>7. Rank(All', 0) = 0
  BY <1>6, RankType
<1>8. QED
  BY <1>1, <1>5, <1>6, <1>7

(* Find goes on.                                                           *)
LEMMA FindRepeats ==
  ASSUME Shape, Repeats, FindSkips \/ FindTakes
  PROVE  Repeats'
<1>1. Cardinality(items' \cap shown) <= late
  <2>1. CASE items' = items
    BY <2>1 DEF Repeats
  <2>2. CASE cursor' \in shown /\ items' # items
    <3>1. Met + Rank(All, cursor') - Rank(All, cursor) <= Offset + late /\ toSkip = 0
          /\ Cardinality(items') = Cardinality(items) + 1
      BY <2>2, FindCounts DEF Repeats
    <3>2. Cardinality(items') <= late
      BY <3>1, FindCounts, Counts DEF Met
    <3>3. Cardinality(items' \cap shown) <= Cardinality(items') /\ Cardinality(items' \cap shown) \in Nat
      <4>1. items' \in SUBSET Documents /\ items' \cap shown \in SUBSET items'
        BY FindCounts, Counts DEF Shape, TypeOK
      <4>2. QED
        BY <4>1, MoreDocuments, DocumentsFinite
    <3>4. QED
      BY <3>1, <3>2, <3>3, Counts
  <2>3. CASE cursor' \notin shown
    <3>1. items' \cap shown = items \cap shown
      BY <2>3, FindCounts
    <3>2. QED
      BY <3>1 DEF Repeats
  <2>4. QED
    BY <2>1, <2>2, <2>3
<1>2. \A m \in items' : Rank(All, m) <= Offset + Cardinality(items') + late
  <2>1. Rank(All, cursor) <= Met + late
    BY FindCounts DEF Repeats
  <2>2. CASE items' = items
    BY <2>2 DEF Repeats
  <2>3. CASE items' = items \cup {cursor'} /\ toSkip = 0
              /\ Cardinality(items') = Cardinality(items) + 1
    <3>1. Rank(All, cursor') <= Offset + Cardinality(items') + late
      BY <2>1, <2>3, FindCounts, Counts DEF Met
    <3>2. \A m \in items : Rank(All, m) \in Nat
      BY Counts, ShownNumbers
    <3>3. \A m \in items : Rank(All, m) <= Offset + Cardinality(items') + late
      BY <2>3, <3>2, Counts DEF Repeats
    <3>4. QED
      BY <2>3, <3>1, <3>3
  <2>4. QED
    BY <2>2, <2>3, FindCounts
<1>3. Rank(All, cursor') <= Met' + late
  BY FindCounts, Counts DEF Repeats
<1>4. ASSUME NEW m \in shown, cursor' < m
      PROVE  Met' + Rank(All, m) - Rank(All, cursor') <= Offset + late
  <2>1. cursor < m /\ Rank(All, m) \in Nat /\ Rank(All, cursor) \in Nat
    BY <1>4, FindCounts, Counts, ShownNumbers, DocumentNumbers
  <2>2. QED
    BY <2>1, FindCounts, Counts DEF Repeats
<1>5. QED
  BY <1>1, <1>2, <1>3, <1>4, FindCounts DEF Repeats

(* The other steps of the handler.                                         *)
LEMMA OtherRepeats ==
  ASSUME Shape, Repeats, FindEnds \/ CountDocument \/ Answer \/ CallFails \/ UNCHANGED vars
  PROVE  Repeats'
<1>1. UNCHANGED <<docs, ask, items, shown, late>>
  BY DEF FindEnds, CountDocument, Answer, CallFails, vars, collection, request, walk
<1>2. UNCHANGED <<All, Offset>>
  BY <1>1 DEF All, Collected, Offset
<1>3. UNCHANGED vars => UNCHANGED <<at, cursor, toSkip>>
  BY DEF vars, request
<1>4. at' = "find" => UNCHANGED <<at, cursor, toSkip, Met>>
  BY <1>1, <1>2, <1>3 DEF FindEnds, CountDocument, Answer, CallFails, Met
<1>5. QED
  BY <1>1, <1>2, <1>4 DEF Repeats

(* A new page has the room of its size for those shown before.             *)
LEMMA UserRepeats ==
  ASSUME Shape, Shape', Repeats, User
  PROVE  Repeats'
<1>1. Cardinality(items' \cap shown') = 0
  <2>1. items' \cap shown' = {}
    BY RequestCounts
  <2>2. QED
    BY <2>1, FS_EmptySet
<1>2. late' \in Nat
  BY DEF Shape, TypeOK
<1>3. ASSUME NEW m \in shown' PROVE Rank(All', m) <= Offset' + late' /\ Rank(All', m) \in Nat
  <2>1. CASE StartWalk(ask'.filter, ask'.page, ask'.size)
    BY <2>1 DEF StartWalk
  <2>2. CASE NextPage /\ ask'.filter = ask.filter /\ Offset' = Offset + Size(ask.size)
    <3>1. All' = All /\ late' = late /\ shown' = shown \cup items
          /\ Cardinality(items) = Size(ask.size)
      BY <2>2, RequestCounts DEF All, Collected, NextPage
    <3>2. Rank(All, m) \in Nat
      BY <3>1, Counts, ShownNumbers
    <3>3. QED
      BY <2>2, <3>1, <3>2, Counts DEF Repeats
  <2>3. CASE Retry /\ ask' = ask
    <3>1. All' = All /\ Offset' = Offset /\ late' = late /\ shown' = shown
      BY <2>3, RequestCounts DEF All, Collected, Offset, Retry, walk
    <3>2. Rank(All, m) \in Nat
      BY <3>1, Counts, ShownNumbers
    <3>3. QED
      BY <3>1, <3>2 DEF Repeats
  <2>4. QED
    BY <2>1, <2>2, <2>3, RequestAsks DEF Shape
<1>4. QED
  BY <1>1, <1>2, <1>3, RequestCounts DEF Repeats

(* What others write changes every rank behind it by one.                  *)
LEMMA WriteRanks ==
  ASSUME Shape, NEW d \in Documents, NEW n \in Nat
  PROVE  /\ Insert(d) =>
              Rank(All', n) = IF Matches(d, ask.filter) /\ d <= n THEN Rank(All, n) + 1
                                                                  ELSE Rank(All, n)
         /\ Delete(d) =>
              Rank(All', n) = IF Matches(d, ask.filter) /\ d <= n THEN Rank(All, n) - 1
                                                                  ELSE Rank(All, n)
<1>1. TypeOK /\ All \in SUBSET Documents
  BY Counts DEF Shape
<1>2. QED
  BY <1>1, WriteEffects, RankWrites

(* A document that comes up before one of a page is late.                  *)
LEMMA LateInsert ==
  ASSUME Shape, NEW d \in Documents, Insert(d), NEW n \in Nat, d <= n,
         n \notin fresh, n \in Documents, Matches(n, ask.filter)
  PROVE  late' = IF Matches(d, ask.filter) THEN late + 1 ELSE late
<1>1. d \in fresh /\ d # n
  BY DEF Insert
<1>2. n > d
  BY <1>1, DocumentNumbers
<1>3. QED
  BY <1>2 DEF Insert

(* What comes moves a document shown by no more than it is late.           *)
LEMMA InsertRepeats ==
  ASSUME Shape, Repeats, NEW d \in Documents, Insert(d)
  PROVE  Repeats'
<1>1. /\ UNCHANGED <<at, ask, cursor, items, toSkip, shown>> /\ UNCHANGED <<Offset, Met>>
      /\ late' \in Nat /\ late <= late'
  BY Counts DEF Insert, request, Offset, Met
<1>2. ASSUME NEW m \in items \cup shown
      PROVE  Rank(All', m) \in Nat /\ Rank(All', m) - Rank(All, m) <= late' - late
  BY <1>1, Counts, ShownNumbers, WriteRanks, LateInsert
<1>3. at = "find" => Rank(All', cursor) - Rank(All, cursor) <= late' - late
  <2>1. CASE d <= cursor
    <3>1. cursor # 0 /\ cursor \in Documents
      BY <2>1, DocumentNumbers DEF Shape, TypeOK
    <3>2. QED
      BY <1>1, <2>1, <3>1, Counts, WriteRanks, LateInsert DEF Shape
  <2>2. CASE ~(d <= cursor)
    BY <1>1, <2>2, Counts, WriteRanks
  <2>3. QED
    BY <2>1, <2>2
<1>4. ASSUME NEW m \in shown, cursor < m
      PROVE  (Rank(All', m) - Rank(All', cursor)) - (Rank(All, m) - Rank(All, cursor))
               <= late' - late
  <2>1. d <= cursor => d <= m
    BY <1>4, Counts, ShownNumbers, DocumentNumbers
  <2>2. QED
    BY <1>1, <1>2, <2>1, Counts, ShownNumbers, WriteRanks
<1>5. /\ Rank(All', cursor) \in Nat /\ Rank(All, cursor) \in Nat
      /\ \A m \in items \cup shown : Rank(All, m) \in Nat
  BY Counts, ShownNumbers, WriteRanks
<1>6. Cardinality(items' \cap shown') <= late'
  BY <1>1, Counts DEF Repeats
<1>7. \A m \in shown : Rank(All', m) <= Offset + late'
  BY <1>1, <1>2, <1>5, Counts DEF Repeats
<1>8. \A m \in items : Rank(All', m) <= Offset + Cardinality(items) + late'
  BY <1>1, <1>2, <1>5, Counts DEF Repeats
<1>9. at = "find" => Rank(All', cursor) <= Met + late'
  BY <1>1, <1>3, <1>5, Counts DEF Repeats
<1>10. ASSUME at = "find", NEW m \in shown, cursor < m
       PROVE  Met + Rank(All', m) - Rank(All', cursor) <= Offset + late'
  BY <1>1, <1>2, <1>4, <1>5, <1>10, Counts DEF Repeats
<1>11. QED
  BY <1>1, <1>6, <1>7, <1>8, <1>9, <1>10 DEF Repeats

(* A delete moves documents forward only.                                  *)
LEMMA DeleteRepeats ==
  ASSUME Shape, Repeats, NEW d \in Documents, Delete(d)
  PROVE  Repeats'
<1>1. UNCHANGED <<at, ask, cursor, items, toSkip, shown, late>> /\ UNCHANGED <<Offset, Met>>
  BY DEF Delete, request, Offset, Met
<1>2. /\ Rank(All', cursor) <= Rank(All, cursor) /\ Rank(All', cursor) \in Int
      /\ \A m \in items \cup shown :
           /\ Rank(All, m) \in Nat /\ Rank(All', m) \in Int /\ Rank(All', m) <= Rank(All, m)
           /\ cursor < m =>
                Rank(All', m) - Rank(All', cursor) <= Rank(All, m) - Rank(All, cursor)
  <2>1. Rank(All', cursor) <= Rank(All, cursor) /\ Rank(All', cursor) \in Int
    BY Counts, WriteRanks
  <2>2. ASSUME NEW m \in items \cup shown
        PROVE  /\ Rank(All, m) \in Nat /\ Rank(All', m) \in Int /\ Rank(All', m) <= Rank(All, m)
               /\ cursor < m =>
                    Rank(All', m) - Rank(All', cursor) <= Rank(All, m) - Rank(All, cursor)
    <3>1. m \in Nat /\ Rank(All, m) \in Nat /\ cursor \in Nat /\ d \in Nat
          /\ Rank(All, cursor) \in Nat
      BY Counts, ShownNumbers, DocumentNumbers
    <3>2. QED
      BY <3>1, WriteRanks
  <2>3. QED
    BY <2>1, <2>2
<1>3. QED
  BY <1>1, <1>2, Counts DEF Repeats

(* Every step keeps the repeats within the late documents.                 *)
LEMMA NextRepeats == Shape /\ Shape' /\ Repeats /\ [Next]_vars => Repeats'
  BY FindRepeats, OtherRepeats, UserRepeats, InsertRepeats, DeleteRepeats DEF Next, Handler, Others

(* A user who walks from page to page sees a document again only if others *)
(* came up late, and no more than came late (get_jobs, get_operations).    *)
THEOREM RepeatsCorrect == Spec => []RepeatsNeedInserts
<1>1. Init => Repeats
  <2>1. ASSUME Init PROVE Cardinality(items \cap shown) = 0 /\ late = 0
    <3>1. items \cap shown = {}
      BY <2>1 DEF Init
    <3>2. QED
      BY <2>1, <3>1, FS_EmptySet DEF Init
  <2>2. QED
    BY <2>1 DEF Init, Repeats
<1>2. Repeats => RepeatsNeedInserts
  BY DEF Repeats, RepeatsNeedInserts
<1>3. QED
  BY <1>1, <1>2, NextRepeats, ShapeCorrect, PTL DEF Spec

------------------------------------------------------------------------------
(* The total.                                                              *)

(* What count will have counted covers what find has met, but for as many  *)
(* documents as were deleted.                                              *)
Covers ==
  /\ at = "find" => Met <= Rank(All, cursor) + lost
  /\ at = "count" /\ items # {} =>
       Offset + Cardinality(items) <= total + Cardinality(All) - Rank(All, cursor) + lost
  /\ at = "answered" /\ items # {} => Offset + Cardinality(items) <= total + lost

(* What find leaves to count.                                              *)
LEMMA EndCounts ==
  ASSUME Shape, FindEnds
  PROVE  /\ at = "find" /\ at' = "count" /\ cursor' = 0 /\ total' = 0
         /\ UNCHANGED <<ask, items, shown, start, late, gone, lost, quiet, docs, All, Offset>>
         /\ Rank(All, 0) = 0 /\ Rank(All, cursor) <= Cardinality(All)
         /\ items # {} => Met = Offset + Cardinality(items)
<1>1. /\ at = "find" /\ at' = "count" /\ cursor' = 0 /\ total' = 0
      /\ UNCHANGED <<ask, items, shown, start, late, gone, lost, quiet, docs>>
  BY DEF FindEnds, Shape, collection, walk
<1>2. UNCHANGED <<All, Offset>>
  BY <1>1 DEF All, Collected, Offset
<1>3. Rank(All, 0) = 0 /\ Rank(All, cursor) <= Cardinality(All)
  BY Counts, RankType
<1>4. items # {} => Met = Offset + Cardinality(items)
  BY Counts DEF Shape, Met
<1>5. QED
  BY <1>1, <1>2, <1>3, <1>4

(* What count does to the counts.                                          *)
LEMMA CountCounts ==
  ASSUME Shape, CountDocument \/ Answer
  PROVE  /\ at = "count"
         /\ UNCHANGED <<ask, items, shown, start, late, gone, lost, quiet, docs, All, Offset>>
         /\ \/ /\ at' = "count" /\ total' = total + 1
               /\ Rank(All, cursor') = Rank(All, cursor) + 1
            \/ /\ at' = "answered" /\ total' = total
               /\ Rank(All, cursor) = Cardinality(All)
<1>1. /\ at = "count" /\ TypeOK
      /\ UNCHANGED <<ask, items, shown, start, late, gone, lost, quiet, docs>>
  BY DEF CountDocument, Answer, Shape, collection, walk
<1>2. UNCHANGED <<All, Offset>>
  BY <1>1 DEF All, Collected, Offset
<1>3. CASE CountDocument
  BY <1>1, <1>2, <1>3, CursorMoves DEF CountDocument
<1>4. CASE Answer
  <2>1. {d \in All : d > cursor} = {}
    BY <1>1, <1>4, AllDocuments DEF Answer
  <2>2. Rank(All, cursor) = Cardinality(All)
    BY <2>1, Counts, RankLast
  <2>3. QED
    BY <1>1, <1>2, <1>4, <2>2 DEF Answer
<1>5. QED
  BY <1>3, <1>4

(* What others write changes the number of documents asked about by one.   *)
LEMMA WriteCounts ==
  ASSUME Shape, NEW d \in Documents, Insert(d) \/ Delete(d)
  PROVE  /\ UNCHANGED <<at, ask, cursor, items, toSkip, total, shown, start>>
         /\ UNCHANGED <<Offset, Met>>
         /\ Rank(All', cursor) \in Int
         /\ Insert(d) =>
              /\ UNCHANGED <<lost, gone>>
              /\ Cardinality(All') =
                   IF Matches(d, ask.filter) THEN Cardinality(All) + 1 ELSE Cardinality(All)
         /\ Delete(d) =>
              /\ lost' = IF Matches(d, ask.filter) THEN lost + 1 ELSE lost
              /\ gone' = IF Matches(d, ask.filter) THEN gone + 1 ELSE gone
              /\ Cardinality(All') =
                   IF Matches(d, ask.filter) THEN Cardinality(All) - 1 ELSE Cardinality(All)
<1>1. /\ UNCHANGED <<at, ask, cursor, items, toSkip, total, shown, start>>
      /\ UNCHANGED <<Offset, Met>>
  BY DEF Insert, Delete, request, Offset, Met
<1>2. Rank(All', cursor) \in Int
  BY Counts, WriteRanks
<1>3. TypeOK /\ All \in SUBSET Documents
  BY Counts DEF Shape
<1>4. CASE Insert(d)
  <2>1. Cardinality(All') =
          IF Matches(d, ask.filter) THEN Cardinality(All) + 1 ELSE Cardinality(All)
    BY <1>3, <1>4, WriteEffects, OneMore
  <2>2. UNCHANGED <<lost, gone>> /\ ~Delete(d)
    BY <1>4 DEF Insert, Delete, Shape, TypeOK
  <2>3. QED
    BY <1>1, <1>2, <2>1, <2>2
<1>5. CASE Delete(d)
  <2>1. Cardinality(All') =
          IF Matches(d, ask.filter) THEN Cardinality(All) - 1 ELSE Cardinality(All)
    BY <1>3, <1>5, WriteEffects, OneMore
  <2>2. /\ lost' = IF Matches(d, ask.filter) THEN lost + 1 ELSE lost
        /\ gone' = IF Matches(d, ask.filter) THEN gone + 1 ELSE gone
        /\ ~Insert(d)
    BY <1>5 DEF Insert, Delete, Shape, TypeOK
  <2>3. QED
    BY <1>1, <1>2, <2>1, <2>2
<1>6. QED
  BY <1>4, <1>5

(* Every step keeps the total behind the page.                             *)
LEMMA NextCovers ==
  ASSUME Shape, Shape', Covers, [Next]_vars
  PROVE  Covers'
<1>1. CASE FindSkips \/ FindTakes
  BY <1>1, FindCounts, Counts DEF Covers
<1>2. CASE FindEnds
  BY <1>2, EndCounts, Counts DEF Covers
<1>3. CASE CountDocument \/ Answer
  BY <1>3, CountCounts, Counts DEF Covers
<1>4. CASE CallFails
  BY <1>4 DEF CallFails, Covers
<1>5. CASE User
  BY <1>5, RequestCounts DEF Covers
<1>6. ASSUME NEW d \in Documents, Insert(d) \/ Delete(d)
      PROVE  Covers'
  <2>1. /\ \/ lost' = lost /\ Rank(All', cursor) >= Rank(All, cursor)
                /\ Cardinality(All') - Rank(All', cursor)
                     >= Cardinality(All) - Rank(All, cursor)
           \/ lost' = lost + 1 /\ Rank(All', cursor) >= Rank(All, cursor) - 1
                /\ Cardinality(All') - Rank(All', cursor)
                     >= Cardinality(All) - Rank(All, cursor) - 1
        /\ Rank(All, cursor) \in Nat /\ Cardinality(All') \in Int
    BY <1>6, Counts, WriteRanks, WriteCounts
  <2>2. UNCHANGED <<at, items, total, Offset, Met, cursor>>
    BY <1>6, WriteCounts
  <2>3. at = "find" => Met <= Rank(All', cursor) + lost'
    BY <1>6, <2>1, Counts, WriteCounts DEF Covers
  <2>4. at = "count" /\ items # {} =>
          Offset + Cardinality(items)
            <= total + Cardinality(All') - Rank(All', cursor) + lost'
    BY <1>6, <2>1, Counts, WriteCounts DEF Covers
  <2>5. at = "answered" /\ items # {} => Offset + Cardinality(items) <= total + lost'
    BY <2>1, Counts DEF Covers
  <2>6. QED
    BY <2>2, <2>3, <2>4, <2>5 DEF Covers
<1>7. CASE UNCHANGED vars
  BY <1>7 DEF vars, collection, request, walk, Covers, Met, All, Offset, Collected
<1>8. QED
  BY <1>1, <1>2, <1>3, <1>4, <1>5, <1>6, <1>7 DEF Next, Handler, Others

(* The total falls short of the pages so far by no more than was deleted   *)
(* since the request came (find and count_documents are two calls).        *)
THEOREM CoversCorrect == Spec => []TotalCovers
<1>1. Init => Covers
  BY DEF Init, Covers
<1>2. Covers => TotalCovers
  BY DEF Covers, TotalCovers, Offset
<1>3. QED
  BY <1>1, <1>2, NextCovers, ShapeCorrect, PTL DEF Spec

------------------------------------------------------------------------------
(* The page, when nothing is written.                                      *)

(* While nothing is written the cursor has passed what find has met, the   *)
(* items are those behind the pages before, and count has counted them.    *)
Exact ==
  quiet =>
    /\ at = "find" =>
         /\ Rank(All, cursor) = Met
         /\ items = {d \in All : d <= cursor /\ Rank(All, d) > Offset}
    /\ at \in {"count", "answered"} =>
         items = {d \in All : Rank(All, d) > Offset /\ Rank(All, d) <= Offset + Size(ask.size)}
    /\ at = "count" => total = Rank(All, cursor)
    /\ at = "answered" => total = Cardinality(All)

(* Find goes on.                                                           *)
LEMMA FindExact ==
  ASSUME Shape, Exact, FindSkips \/ FindTakes
  PROVE  Exact'
<1> SUFFICES ASSUME quiet
             PROVE  /\ Rank(All, cursor') = Met'
                    /\ items' = {d \in All : d <= cursor' /\ Rank(All, d) > Offset}
  BY FindCounts DEF Exact
<1>1. /\ Rank(All, cursor) = Met
      /\ items = {d \in All : d <= cursor /\ Rank(All, d) > Offset}
  BY FindCounts DEF Exact
<1>2. /\ Rank(All, cursor') = Met' /\ Rank(All, cursor') = Met + 1 /\ cursor' \in Nat
      /\ Met = Offset - toSkip + Cardinality(items)
  <2>1. cursor' \in Nat
    BY FindCounts, Counts, DocumentNumbers
  <2>2. Rank(All, cursor') = Met' /\ Rank(All, cursor') = Met + 1
    BY <1>1, FindCounts
  <2>3. QED
    BY <2>1, <2>2 DEF Met
<1>3. \A d \in All : d <= cursor' <=> d <= cursor \/ d = cursor'
  <2>1. \A d \in All : d \in Nat
    BY Counts, DocumentNumbers
  <2>2. cursor' > cursor /\ \A d \in All : d <= cursor' => d <= cursor \/ d = cursor'
    BY FindCounts
  <2>3. cursor \in Nat
    BY Counts
  <2>4. QED
    BY <1>2, <2>1, <2>2, <2>3
<1>4. CASE toSkip > 0 /\ toSkip' = toSkip - 1 /\ items = {} /\ items' = items
  <2>1. Cardinality(items) = 0
    BY <1>4, FS_EmptySet
  <2>2. ~(Rank(All, cursor') > Offset)
    BY <1>2, <1>4, <2>1, Counts
  <2>3. QED
    BY <1>1, <1>2, <1>3, <1>4, <2>2
<1>5. CASE toSkip = 0 /\ items' = items \cup {cursor'}
  <2>1. Rank(All, cursor') > Offset
    BY <1>2, <1>5, Counts
  <2>2. QED
    BY <1>1, <1>2, <1>3, <1>5, <2>1, FindCounts
<1>6. QED
  BY <1>4, <1>5, FindCounts

(* Find ends with the page.                                                *)
LEMMA EndExact ==
  ASSUME Shape, Exact, FindEnds
  PROVE  Exact'
<1> SUFFICES ASSUME quiet
             PROVE  /\ total' = Rank(All, cursor')
                    /\ items = {d \in All : /\ Rank(All, d) > Offset
                                            /\ Rank(All, d) <= Offset + Size(ask.size)}
  BY EndCounts DEF Exact
<1>1. /\ Rank(All, cursor) = Met
      /\ items = {d \in All : d <= cursor /\ Rank(All, d) > Offset}
  BY EndCounts DEF Exact
<1>2. /\ All \in SUBSET Documents /\ cursor \in Nat
      /\ \A d \in All : d \in Nat /\ Rank(All, d) \in Nat
  BY Counts, DocumentNumbers
<1>3. Met <= Offset + Size(ask.size)
  BY Counts DEF Shape, TypeOK, Met
<1>4. ASSUME NEW d \in All, d <= cursor
      PROVE  Rank(All, d) <= Offset + Size(ask.size)
  BY <1>1, <1>2, <1>3, <1>4, RankGrows, Counts
<1>5. ASSUME NEW d \in All, d > cursor
      PROVE  Rank(All, d) > Offset + Size(ask.size)
  <2>1. Ahead # {}
    BY <1>5, AllDocuments DEF Shape
  <2>2. toSkip = 0 /\ Cardinality(items) >= Size(ask.size)
    BY <2>1, Counts DEF FindEnds, Room
  <2>3. Rank(All, cursor) < Rank(All, d)
    BY <1>2, <1>5, RankGrows
  <2>4. QED
    BY <1>1, <1>2, <2>2, <2>3, Counts DEF Met
<1>6. \A d \in All : d <= cursor <=> Rank(All, d) <= Offset + Size(ask.size)
  BY <1>2, <1>4, <1>5, Counts
<1>7. QED
  BY <1>1, <1>6, EndCounts

(* What others write ends the quiet, or is not asked about.                *)
LEMMA WriteExact ==
  ASSUME Shape, Exact, NEW d \in Documents, Insert(d) \/ Delete(d)
  PROVE  Exact'
<1>1. CASE Matches(d, ask.filter)
  BY <1>1 DEF Insert, Delete, Exact
<1>2. CASE ~Matches(d, ask.filter)
  <2>1. quiet' => quiet
    BY DEF Insert, Delete
  <2>2. All' = All
    BY <1>2, WriteEffects DEF Shape
  <2>3. QED
    BY <2>1, <2>2, WriteCounts DEF Exact
<1>3. QED
  BY <1>1, <1>2

(* Every step keeps the page.                                              *)
LEMMA NextExact ==
  ASSUME Shape, Shape', Exact, [Next]_vars
  PROVE  Exact'
<1>1. CASE CountDocument \/ Answer
  BY <1>1, CountCounts DEF Exact
<1>2. CASE CallFails
  BY <1>2 DEF CallFails, Exact
<1>3. CASE User
  <2>1. {d \in All' : d <= 0 /\ Rank(All', d) > Offset'} = {}
    BY <1>3, RequestCounts, DocumentNumbers
  <2>2. QED
    BY <1>3, <2>1, RequestCounts DEF Exact
<1>4. CASE UNCHANGED vars
  BY <1>4 DEF vars, collection, request, Exact, Met, All, Offset, Collected
<1>5. QED
  BY <1>1, <1>2, <1>3, <1>4, FindExact, EndExact, WriteExact DEF Next, Handler, Others

(* The page and the total the user gets are those asked for, whatever the  *)
(* numbers in the query string, when nothing was written since (PageParams,*)
(* skip and limit).                                                        *)
THEOREM ExactCorrect == Spec => []PageExact
<1>1. Init => Exact
  BY DEF Init, Exact
<1>2. Shape /\ Exact => PageExact
  <2> SUFFICES ASSUME Shape, Exact, at = "answered", quiet
               PROVE  /\ items = Behind(Offset, All)
                                   \ Behind(Offset + WantedSize(ask.size), All)
                      /\ total = Cardinality(All)
    BY DEF PageExact, All, Offset
  <2>1. \A n : Behind(n, All) = {d \in All : Rank(All, d) > n}
    BY DEF Behind, Rank
  <2>2. Size(ask.size) = WantedSize(ask.size)
    BY WantedParams DEF Shape, TypeOK
  <2>3. \A d \in All : Rank(All, d) \in Nat
    BY Counts, DocumentNumbers
  <2>4. items = {d \in All : /\ Rank(All, d) > Offset
                             /\ Rank(All, d) <= Offset + WantedSize(ask.size)}
    BY <2>2 DEF Exact
  <2>5. Offset \in Nat /\ WantedSize(ask.size) \in Nat
    BY <2>2, Counts
  <2>6. QED
    BY <2>1, <2>3, <2>4, <2>5 DEF Exact
<1>3. QED
  BY <1>1, <1>2, NextExact, ShapeCorrect, PTL DEF Spec

------------------------------------------------------------------------------
(* Misses.                                                                 *)

(* Documents that were there from the beginning of the walk, and on no     *)
(* page before this one.                                                   *)
Unseen == (start \cap docs) \ shown

(* How many of them, not on this page either, have no higher a rank.       *)
Passed(n) == Cardinality({d \in Unseen \ items : Rank(All, d) <= n})

Full == Cardinality(items) = Size(ask.size)

(* What the pages before passed without showing it, and what find will     *)
(* pass on this page, was moved there by deletes.                          *)
Misses ==
  /\ Cardinality({d \in Unseen : Rank(All, d) <= Offset}) <= gone
  /\ at = "find" =>
       /\ Passed(Rank(All, cursor) + toSkip) <= gone
       /\ Passed(Rank(All, cursor) + toSkip) + Met - Rank(All, cursor) <= gone
  /\ at \in {"count", "answered"} =>
       IF Full THEN Passed(Offset + Size(ask.size)) <= gone
               ELSE Cardinality(Unseen \ items) <= gone

(* The documents not seen are among those asked about, and are numbered.   *)
LEMMA UnseenDocuments ==
  ASSUME Shape
  PROVE  /\ Unseen \in SUBSET All
         /\ \A d \in Unseen : d \in Documents /\ d \in Nat /\ Rank(All, d) \in Nat
         /\ \A n : Passed(n) \in Nat
         /\ Cardinality(Unseen \ items) \in Nat
         /\ Cardinality({d \in Unseen : Rank(All, d) <= Offset}) \in Nat
<1>1. Unseen \in SUBSET All
  BY AllDocuments DEF Shape, TypeOK, Unseen
<1>2. \A d \in Unseen : d \in Documents /\ d \in Nat /\ Rank(All, d) \in Nat
  BY <1>1, Counts, DocumentNumbers
<1>3. \A S \in SUBSET Unseen : Cardinality(S) \in Nat
  BY <1>2, DocumentsFinite
<1>4. QED
  BY <1>1, <1>2, <1>3 DEF Passed

(* Fewer of them up to a lower rank.                                       *)
LEMMA PassedGrows ==
  ASSUME Shape, NEW n \in Nat, NEW k \in Nat
  PROVE  Passed(n) <= Passed(n + k) /\ Passed(n + k) <= Passed(n) + k
<1>1. \A d \in Unseen : Rank(All, d) <= n => Rank(All, d) <= n + k
  BY UnseenDocuments
<1>2. /\ {d \in Unseen \ items : Rank(All, d) <= n}
           \in SUBSET {d \in Unseen \ items : Rank(All, d) <= n + k}
      /\ {d \in Unseen \ items : Rank(All, d) <= n + k} \in SUBSET Documents
  BY <1>1, UnseenDocuments
<1>3. Passed(n) <= Passed(n + k)
  BY <1>2, MoreDocuments DEF Passed
<1>4. Unseen \ items \in SUBSET All /\ All \in SUBSET Documents
  BY UnseenDocuments, Counts
<1>5. Passed(n + k) <= Passed(n) + k
  BY <1>4, RankSlice DEF Passed
<1>6. QED
  BY <1>3, <1>5

(* Find goes on: what it shows is no longer passed.                        *)
LEMMA FindMisses ==
  ASSUME Shape, Misses, FindSkips \/ FindTakes
  PROVE  Misses'
<1> DEFINE n == Rank(All, cursor) + toSkip
           T == {d \in Unseen \ items : Rank(All, d) <= n}
<1>1. /\ UNCHANGED <<Unseen, All, Offset, gone>> /\ at = "find" /\ at' = "find"
      /\ Met' = Met + 1 /\ Rank(All, cursor') = Rank(All, cursor) + 1
  BY FindCounts DEF Unseen
<1>2. Rank(All, cursor) \in Nat /\ toSkip \in Nat /\ Met \in Nat /\ gone \in Nat /\ n \in Nat
  BY Counts
<1>3. T' \in SUBSET T
  <2>1. T' = {d \in Unseen \ items' : Rank(All, d) <= Rank(All, cursor') + toSkip'}
    BY <1>1
  <2>2. CASE toSkip > 0 /\ toSkip' = toSkip - 1 /\ items' = items
    <3>1. Rank(All, cursor') + toSkip' = n
      BY <1>1, <1>2, <2>2
    <3>2. QED
      BY <2>1, <2>2, <3>1
  <2>3. CASE toSkip = 0 /\ toSkip' = 0 /\ items' = items \cup {cursor'}
    <3>1. ASSUME NEW d \in Unseen \ items', Rank(All, d) = n + 1
          PROVE  FALSE
      <4>1. d \in All /\ cursor' \in All /\ Rank(All, d) = Rank(All, cursor')
        BY <1>1, <1>2, <2>3, <3>1, UnseenDocuments, FindCounts
      <4>2. d = cursor'
        BY <4>1, RankIdentifies, Counts
      <4>3. QED
        BY <2>3, <3>1, <4>2
    <3>2. \A d \in Unseen \ items' : Rank(All, d) <= n + 1 => Rank(All, d) <= n
      BY <1>2, <3>1, UnseenDocuments
    <3>3. Rank(All, cursor') + toSkip' = n + 1
      BY <1>1, <1>2, <2>3
    <3>4. QED
      BY <2>1, <2>3, <3>2, <3>3
  <2>4. QED
    BY <2>2, <2>3, FindCounts
<1>4. T \in SUBSET Documents
  BY UnseenDocuments
<1>5. Cardinality(T') <= Cardinality(T) /\ Cardinality(T') \in Nat /\ Cardinality(T) \in Nat
  BY <1>3, <1>4, MoreDocuments, DocumentsFinite
<1>6. Cardinality(T) <= gone /\ Cardinality(T) + Met - Rank(All, cursor) <= gone
  BY <1>1 DEF Misses, Passed
<1> HIDE DEF n
<1>7. /\ Cardinality(T') <= gone
      /\ Cardinality(T') + Met' - Rank(All, cursor') <= gone
  <2> HIDE DEF T
  <2>1. QED
    BY <1>1, <1>2, <1>5, <1>6
<1>8. Cardinality({d \in Unseen : Rank(All, d) <= Offset}) <= gone
  BY DEF Misses
<1>9. QED
  BY <1>1, <1>7, <1>8 DEF Misses, Passed, n

(* Find ends: a full page leaves what lies behind it, and otherwise find   *)
(* has passed every document.                                              *)
LEMMA EndMisses ==
  ASSUME Shape, Misses, FindEnds
  PROVE  Misses'
<1> DEFINE n == Rank(All, cursor) + toSkip
<1>1. UNCHANGED <<Unseen, items, All, Offset, gone, ask>> /\ at = "find" /\ at' = "count"
  BY EndCounts DEF Unseen
<1>2. Rank(All, cursor) \in Nat /\ toSkip \in Nat /\ Met \in Nat /\ gone \in Nat /\ n \in Nat
  BY Counts
<1>3. Passed(n) <= gone /\ Passed(n) + Met - Rank(All, cursor) <= gone
  BY <1>1 DEF Misses
<1>4. \A m : Passed(m) \in Nat
  BY UnseenDocuments
<1>5. CASE Full
  <2>1. items # {} /\ toSkip = 0 /\ Met = Offset + Size(ask.size)
    <3>1. items # {}
      BY <1>5, FS_EmptySet, Counts DEF Full
    <3>2. QED
      BY <1>5, <3>1, EndCounts DEF Full, Shape
  <2>2. ASSUME Met <= Rank(All, cursor)
        PROVE  Passed(Met) <= gone
    <3>1. Rank(All, cursor) - Met \in Nat /\ n = Met + (Rank(All, cursor) - Met)
      BY <1>2, <2>1, <2>2
    <3>2. Passed(Met) <= Passed(n)
      BY <1>2, <3>1, PassedGrows
    <3> HIDE DEF n
    <3>3. QED
      BY <1>2, <1>3, <1>4, <3>2
  <2>3. ASSUME Met > Rank(All, cursor)
        PROVE  Passed(Met) <= gone
    <3>1. Met - n \in Nat /\ Met = n + (Met - n) /\ n = Rank(All, cursor)
      BY <1>2, <2>1, <2>3
    <3>2. Passed(Met) <= Passed(n) + (Met - n)
      BY <1>2, <3>1, PassedGrows
    <3> HIDE DEF n
    <3>3. QED
      BY <1>2, <1>3, <1>4, <3>1, <3>2
  <2>4. Passed(Offset + Size(ask.size)) <= gone
    <3>1. Passed(Met) <= gone
      BY <1>2, <2>2, <2>3
    <3>2. QED
      BY <2>1, <3>1, Zenon
  <2>5. Full' /\ Passed(Offset + Size(ask.size))' <= gone
    BY <1>1, <1>5, <2>4 DEF Full, Passed
  <2>6. QED
    BY <1>1, <2>5 DEF Misses
<1>6. CASE ~Full
  <2>1. Ahead = {}
    <3>1. Cardinality(items) <= Size(ask.size) /\ Cardinality(items) # Size(ask.size)
      BY <1>6 DEF Shape, TypeOK, Full
    <3>2. Room(Size(ask.size))
      BY <3>1, Counts DEF Room
    <3>3. QED
      BY <3>2 DEF FindEnds
  <2>2. Rank(All, cursor) = Cardinality(All)
    BY <2>1, Counts, AllDocuments, RankLast DEF Shape
  <2>3. \A d \in Unseen : Rank(All, d) <= Cardinality(All)
    BY UnseenDocuments, Counts, RankType
  <2>4. \A d \in Unseen : Rank(All, d) <= n
    BY <1>2, <2>2, <2>3, UnseenDocuments
  <2>5. {d \in Unseen \ items : Rank(All, d) <= n} = Unseen \ items
    BY <2>4
  <2>6. Cardinality(Unseen \ items) <= gone /\ ~Full'
    BY <1>1, <1>3, <1>6, <2>5 DEF Passed, Full
  <2>7. QED
    BY <1>1, <2>6 DEF Misses
<1>7. QED
  BY <1>5, <1>6

(* The other steps of the handler.                                         *)
LEMMA CountMisses ==
  ASSUME Shape, Misses, CountDocument \/ Answer \/ CallFails \/ UNCHANGED vars
  PROVE  Misses'
<1>1. UNCHANGED <<docs, start, shown, items, ask, gone>>
  BY DEF CountDocument, Answer, CallFails, vars, collection, request, walk
<1>2. UNCHANGED <<Unseen, All, Offset, Full, items, gone, ask>>
  BY <1>1 DEF Unseen, All, Collected, Offset, Full
<1>3. at' = "find" => UNCHANGED <<at, cursor, toSkip, Met>>
  BY <1>1, <1>2 DEF CountDocument, Answer, CallFails, vars, request, Met
<1>4. at' \in {"count", "answered"} => at \in {"count", "answered"} \/ UNCHANGED at
  BY DEF CountDocument, Answer, CallFails, vars, request
<1>5. QED
  BY <1>2, <1>3, <1>4 DEF Misses, Passed

(* A new page passes what the one before left: nothing, but for deletes.   *)
LEMMA UserMisses ==
  ASSUME Shape, Shape', Misses, User
  PROVE  Misses'
<1> DEFINE L == {d \in Unseen : Rank(All, d) <= Offset}
<1>1. Cardinality(L') <= gone' /\ L' \in SUBSET Documents
  <2>1. CASE StartWalk(ask'.filter, ask'.page, ask'.size)
    <3>1. start' = {d \in All' : Rank(All', d) > Offset'} /\ gone' = 0
      <4>1. ask' = [filter |-> ask'.filter, page |-> ask'.page, size |-> ask'.size]
        BY <2>1 DEF StartWalk, Request
      <4>2. Offset' = Before(ask'.page, ask'.size) /\ All' = Collected(ask'.filter)
        BY <2>1 DEF Offset, All, Collected, StartWalk, Request, collection
      <4>3. QED
        BY <2>1, <4>2 DEF StartWalk, Behind, Rank
    <3>2. \A d \in All' : Rank(All', d) \in Nat
      BY RequestCounts, RankType, DocumentNumbers
    <3>3. L' = {}
      BY <3>1, <3>2, RequestCounts DEF Unseen
    <3>4. QED
      BY <3>1, <3>3, FS_EmptySet
  <2>2. CASE NextPage /\ ask'.filter = ask.filter /\ Offset' = Offset + Size(ask.size)
    <3>1. /\ All' = All /\ gone' = gone /\ Unseen' = Unseen \ items /\ at = "answered" /\ Full
      BY <2>2, RequestCounts DEF All, Collected, NextPage, Unseen, Full
    <3>2. L' = {d \in Unseen \ items : Rank(All, d) <= Offset + Size(ask.size)}
      BY <2>2, <3>1
    <3>3. QED
      BY <3>1, <3>2, UnseenDocuments DEF Misses, Passed
  <2>3. CASE Retry /\ ask' = ask
    <3>1. All' = All /\ Offset' = Offset /\ gone' = gone /\ Unseen' = Unseen
      BY <2>3, RequestCounts DEF All, Collected, Offset, Retry, walk, Unseen
    <3>2. L' = L
      BY <3>1
    <3>3. QED
      BY <3>1, <3>2, UnseenDocuments DEF Misses
  <2>4. QED
    BY <2>1, <2>2, <2>3, RequestAsks DEF Shape
<1>2. {d \in Unseen' \ items' : Rank(All', d) <= Rank(All', cursor') + toSkip'} = L'
  BY RequestCounts
<1>3. Cardinality(L') \in Nat /\ gone' \in Nat
  BY <1>1, DocumentsFinite DEF Shape, TypeOK
<1>4. Cardinality(L') + Met' - Rank(All', cursor') <= gone'
  BY <1>1, <1>3, RequestCounts
<1>5. QED
  BY <1>1, <1>2, <1>4, RequestCounts DEF Misses, Passed

(* A document that comes moves the later ones back by a place.             *)
LEMMA InsertMisses ==
  ASSUME Shape, Misses, NEW d \in Documents, Insert(d)
  PROVE  Misses'
<1> DEFINE n == Rank(All, cursor) + toSkip
           T == {x \in Unseen \ items : Rank(All, x) <= n}
           L == {x \in Unseen : Rank(All, x) <= Offset}
           P == {x \in Unseen \ items : Rank(All, x) <= Offset + Size(ask.size)}
<1>1. UNCHANGED <<at, ask, cursor, items, toSkip, gone, shown, start, Offset, Met, Full>>
  BY WriteCounts DEF Insert, Full
<1>2. Unseen' = Unseen
  BY <1>1, ShownNumbers DEF Insert, Unseen
<1>3. ASSUME NEW m \in Nat
      PROVE  /\ Rank(All, m) \in Nat /\ Rank(All', m) \in {Rank(All, m), Rank(All, m) + 1}
             /\ m <= cursor /\ Rank(All', m) = Rank(All, m)
                  => Rank(All, m) <= Rank(All, cursor)
             /\ m > cursor /\ Rank(All', cursor) # Rank(All, cursor)
                  => Rank(All', m) # Rank(All, m)
  <2>1. Rank(All, m) \in Nat /\ cursor \in Nat /\ d \in Nat
    BY Counts, DocumentNumbers
  <2>2. Rank(All', m) = IF Matches(d, ask.filter) /\ d <= m THEN Rank(All, m) + 1
                                                            ELSE Rank(All, m)
    BY WriteRanks
  <2>3. Rank(All', cursor) = IF Matches(d, ask.filter) /\ d <= cursor
                               THEN Rank(All, cursor) + 1 ELSE Rank(All, cursor)
    BY <2>1, WriteRanks
  <2>4. m <= cursor => Rank(All, m) <= Rank(All, cursor)
    BY <2>1, RankGrows, Counts
  <2>5. QED
    BY <2>1, <2>2, <2>3, <2>4
<1>4. \A x \in Unseen : x \in Nat /\ cursor \in Nat /\ x \in Documents
  BY UnseenDocuments, Counts
<1>5. /\ Offset \in Nat /\ Size(ask.size) \in Nat /\ toSkip \in Nat /\ Met \in Nat
      /\ gone \in Nat /\ Rank(All, cursor) \in Nat
      /\ Rank(All', cursor) \in {Rank(All, cursor), Rank(All, cursor) + 1}
  BY <1>3, Counts
<1>6. L' \in SUBSET L /\ P' \in SUBSET P
  <2>1. /\ L' = {x \in Unseen : Rank(All', x) <= Offset}
        /\ P' = {x \in Unseen \ items : Rank(All', x) <= Offset + Size(ask.size)}
    BY <1>1, <1>2
  <2>2. \A x \in Unseen : /\ Rank(All', x) <= Offset => Rank(All, x) <= Offset
                          /\ Rank(All', x) <= Offset + Size(ask.size)
                               => Rank(All, x) <= Offset + Size(ask.size)
    BY <1>3, <1>4, <1>5
  <2>3. QED
    BY <2>1, <2>2
<1>7. T' \in SUBSET T
  <2>1. T' = {x \in Unseen \ items : Rank(All', x) <= Rank(All', cursor) + toSkip}
    BY <1>1, <1>2
  <2>2. ASSUME NEW x \in Unseen, Rank(All', x) <= Rank(All', cursor) + toSkip
        PROVE  Rank(All, x) <= Rank(All, cursor) + toSkip
    <3>1. x \in Nat /\ cursor \in Nat
      BY <1>4
    <3>2. /\ Rank(All, x) \in Nat /\ Rank(All', x) \in {Rank(All, x), Rank(All, x) + 1}
          /\ x <= cursor /\ Rank(All', x) = Rank(All, x) => Rank(All, x) <= Rank(All, cursor)
          /\ x > cursor /\ Rank(All', cursor) # Rank(All, cursor)
               => Rank(All', x) # Rank(All, x)
      BY <1>3, <3>1
    <3>3. QED
      BY <1>5, <2>2, <3>1, <3>2
  <2>3. QED
    BY <2>1, <2>2
<1>8. \A S, U : S \in SUBSET U /\ U \in SUBSET Unseen =>
        Cardinality(S) \in Nat /\ Cardinality(U) \in Nat /\ Cardinality(S) <= Cardinality(U)
  BY <1>4, MoreDocuments, DocumentsFinite
<1>9. /\ Cardinality(L') <= Cardinality(L) /\ Cardinality(P') <= Cardinality(P)
      /\ Cardinality(T') <= Cardinality(T)
      /\ Cardinality(L') \in Nat /\ Cardinality(P') \in Nat /\ Cardinality(T') \in Nat
      /\ Cardinality(L) \in Nat /\ Cardinality(P) \in Nat /\ Cardinality(T) \in Nat
  <2>1. L \in SUBSET Unseen /\ P \in SUBSET Unseen /\ T \in SUBSET Unseen
    OBVIOUS
  <2> HIDE DEF L, P, T
  <2>2. QED
    BY <1>6, <1>7, <1>8, <2>1
<1>10. /\ Cardinality(L) <= gone
       /\ at = "find" => Cardinality(T) <= gone
                         /\ Cardinality(T) + Met - Rank(All, cursor) <= gone
       /\ at \in {"count", "answered"} /\ Full => Cardinality(P) <= gone
       /\ at \in {"count", "answered"} /\ ~Full => Cardinality(Unseen \ items) <= gone
  BY DEF Misses, Passed
<1>11. /\ Cardinality(L') <= gone
       /\ at = "find" => Cardinality(T') <= gone
                         /\ Cardinality(T') + Met - Rank(All', cursor) <= gone
       /\ at \in {"count", "answered"} /\ Full => Cardinality(P') <= gone
  <2> HIDE DEF L, P, T
  <2>1. QED
    BY <1>5, <1>9, <1>10
<1>12. QED
  BY <1>1, <1>2, <1>10, <1>11 DEF Misses, Passed

(* A delete moves the later ones forward by a place, one over each edge.   *)
LEMMA DeleteMisses ==
  ASSUME Shape, Misses, NEW d \in Documents, Delete(d)
  PROVE  Misses'
<1> DEFINE n == Rank(All, cursor) + toSkip
           T == {x \in Unseen \ items : Rank(All, x) <= n}
           L == {x \in Unseen : Rank(All, x) <= Offset}
           P == {x \in Unseen \ items : Rank(All, x) <= Offset + Size(ask.size)}
<1>1. UNCHANGED <<at, ask, cursor, items, toSkip, shown, start, Offset, Met, Full>>
  BY WriteCounts DEF Delete, Full
<1>2. CASE ~Matches(d, ask.filter)
  <2>1. Unseen' = Unseen /\ All' = All /\ gone' = gone
    <3>1. d \notin start
      BY <1>2, ShownNumbers
    <3>2. All' = All
      BY <1>2, WriteEffects DEF Shape
    <3>3. QED
      BY <1>1, <1>2, <3>1, <3>2 DEF Delete, Unseen
  <2>2. QED
    BY <1>1, <2>1 DEF Misses, Passed
<1>3. CASE Matches(d, ask.filter)
  <2>1. Unseen' = Unseen \ {d} /\ gone' = gone + 1
    BY <1>1, <1>3 DEF Delete, Unseen
  <2>2. ASSUME NEW m \in Nat
        PROVE  Rank(All, m) \in Nat /\ Rank(All', m) \in {Rank(All, m), Rank(All, m) - 1}
    BY <1>3, Counts, WriteRanks
  <2>3. /\ Offset \in Nat /\ Size(ask.size) \in Nat /\ toSkip \in Nat /\ Met \in Nat
        /\ gone \in Nat /\ Rank(All, cursor) \in Nat /\ n \in Nat
        /\ Rank(All', cursor) \in {Rank(All, cursor), Rank(All, cursor) - 1}
    BY <2>2, Counts
  <2>4. \A x \in Unseen : x \in Nat /\ x \in Documents
    BY UnseenDocuments
  <2>5. \A S, U : S \in SUBSET U /\ U \in SUBSET Unseen =>
          Cardinality(S) \in Nat /\ Cardinality(U) \in Nat /\ Cardinality(S) <= Cardinality(U)
    BY <2>4, MoreDocuments, DocumentsFinite
  <2>6. ASSUME NEW k \in Nat, NEW U \in SUBSET Unseen
        PROVE  Cardinality({x \in U \ {d} : Rank(All', x) <= k}) \in Nat
               /\ Cardinality({x \in U : Rank(All, x) <= k}) \in Nat
               /\ Cardinality({x \in U \ {d} : Rank(All', x) <= k})
                    <= Cardinality({x \in U : Rank(All, x) <= k}) + 1
    <3>1. \A x \in U : Rank(All', x) <= k => Rank(All, x) <= k + 1
      BY <2>2, <2>4
    <3>2. {x \in U \ {d} : Rank(All', x) <= k} \in SUBSET {x \in U : Rank(All, x) <= k + 1}
      BY <3>1
    <3>3. /\ Cardinality({x \in U \ {d} : Rank(All', x) <= k}) \in Nat
          /\ Cardinality({x \in U : Rank(All, x) <= k}) \in Nat
          /\ Cardinality({x \in U : Rank(All, x) <= k + 1}) \in Nat
          /\ Cardinality({x \in U \ {d} : Rank(All', x) <= k})
               <= Cardinality({x \in U : Rank(All, x) <= k + 1})
      BY <2>5, <3>2
    <3>4. U \in SUBSET All /\ All \in SUBSET Documents
      BY UnseenDocuments, Counts
    <3>5. Cardinality({x \in U : Rank(All, x) <= k + 1})
            <= Cardinality({x \in U : Rank(All, x) <= k}) + 1
      BY <3>4, RankSlice
    <3>6. QED
      BY <3>3, <3>5
  <2>7. /\ Unseen' \ items' = (Unseen \ items) \ {d} /\ Unseen \ items \in SUBSET Unseen
        /\ L' = {x \in Unseen \ {d} : Rank(All', x) <= Offset}
        /\ P' = {x \in (Unseen \ items) \ {d} : Rank(All', x) <= Offset + Size(ask.size)}
        /\ T' = {x \in (Unseen \ items) \ {d} : Rank(All', x) <= Rank(All', cursor) + toSkip}
    BY <1>1, <2>1
  <2>8. /\ Cardinality(L') <= Cardinality(L) + 1 /\ Cardinality(P') <= Cardinality(P) + 1
        /\ Cardinality(L') \in Nat /\ Cardinality(P') \in Nat
        /\ Cardinality(L) \in Nat /\ Cardinality(P) \in Nat
    <3>1. Cardinality(L') <= Cardinality(L) + 1 /\ Cardinality(L') \in Nat
          /\ Cardinality(L) \in Nat
      BY <2>3, <2>6, <2>7
    <3>2. Offset + Size(ask.size) \in Nat
      BY <2>3
    <3>3. Cardinality(P') <= Cardinality(P) + 1 /\ Cardinality(P') \in Nat
          /\ Cardinality(P) \in Nat
      BY <2>6, <2>7, <3>2
    <3>4. QED
      BY <3>1, <3>3
  <2>9. /\ Cardinality(T') \in Nat /\ Cardinality(T) \in Nat
        /\ \/ Rank(All', cursor) = Rank(All, cursor) - 1 /\ Cardinality(T') <= Cardinality(T)
           \/ Rank(All', cursor) = Rank(All, cursor) /\ Cardinality(T') <= Cardinality(T) + 1
    <3>1. CASE Rank(All', cursor) = Rank(All, cursor)
      BY <2>3, <2>6, <2>7, <3>1
    <3>2. CASE Rank(All', cursor) = Rank(All, cursor) - 1
      <4>1. Rank(All', cursor) + toSkip = n - 1
        BY <2>3, <3>2
      <4>2. \A x \in Unseen : Rank(All', x) <= n - 1 => Rank(All, x) <= n
        BY <2>2, <2>3, <2>4
      <4>3. T' \in SUBSET T
        BY <2>7, <4>1, <4>2
      <4>4. T \in SUBSET Unseen
        OBVIOUS
      <4> HIDE DEF T
      <4>5. QED
        BY <2>5, <3>2, <4>3, <4>4
    <3>3. QED
      BY <2>3, <3>1, <3>2
  <2>10. Cardinality(Unseen' \ items') <= Cardinality(Unseen \ items)
         /\ Cardinality(Unseen' \ items') \in Nat /\ Cardinality(Unseen \ items) \in Nat
    BY <2>5, <2>7
  <2>11. /\ Cardinality(L) <= gone
         /\ at = "find" => Cardinality(T) <= gone
                           /\ Cardinality(T) + Met - Rank(All, cursor) <= gone
         /\ at \in {"count", "answered"} /\ Full => Cardinality(P) <= gone
         /\ at \in {"count", "answered"} /\ ~Full => Cardinality(Unseen \ items) <= gone
    BY DEF Misses, Passed
  <2>12. /\ Cardinality(L') <= gone'
         /\ at = "find" => Cardinality(T') <= gone'
                           /\ Cardinality(T') + Met - Rank(All', cursor) <= gone'
         /\ at \in {"count", "answered"} /\ Full => Cardinality(P') <= gone'
         /\ at \in {"count", "answered"} /\ ~Full => Cardinality(Unseen' \ items') <= gone'
    <3> HIDE DEF L, P, T
    <3>1. QED
      BY <2>1, <2>3, <2>8, <2>9, <2>10, <2>11
  <2>13. QED
    BY <1>1, <2>12 DEF Misses, Passed
<1>4. QED
  BY <1>2, <1>3

(* Every step keeps the misses within the deletes.                         *)
LEMMA NextMisses ==
  ASSUME Shape, Shape', Misses, [Next]_vars
  PROVE  Misses'
  BY FindMisses, EndMisses, CountMisses, UserMisses, InsertMisses, DeleteMisses
     DEF Next, Handler, Others

(* Who walks to a page that is not full has seen every document that was   *)
(* there all the time, but for as many as were deleted (get_jobs,          *)
(* get_operations).                                                        *)
THEOREM MissesCorrect == Spec => []MissesNeedDeletes
<1>1. Init => Misses
  <2> SUFFICES ASSUME Init
               PROVE  Misses
    OBVIOUS
  <2>1. {d \in Unseen : Rank(All, d) <= Offset} = {}
    BY DEF Init, Unseen
  <2>2. QED
    BY <2>1, FS_EmptySet DEF Init, Misses
<1>2. Shape /\ Misses => MissesNeedDeletes
  <2> SUFFICES ASSUME Shape, Misses, at = "answered", Cardinality(items) < Size(ask.size)
               PROVE  Cardinality((start \cap docs) \ (shown \cup items)) <= gone
    BY DEF MissesNeedDeletes
  <2>1. ~Full
    BY Counts DEF Full
  <2>2. (start \cap docs) \ (shown \cup items) = Unseen \ items
    BY DEF Unseen
  <2>3. QED
    BY <2>1, <2>2 DEF Misses
<1>3. QED
  BY <1>1, <1>2, NextMisses, ShapeCorrect, PTL DEF Spec
==============================================================================
