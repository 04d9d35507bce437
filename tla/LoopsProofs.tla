---------------------------- MODULE LoopsProofs ----------------------------
(***************************************************************************)
(* Proofs about the two loops the server's answers drive, for every page   *)
(* size and page limit, and for every lifetime and interval: WalkInv is    *)
(* inductive, so a walk that ends as complete missed no row that stayed    *)
(* where it was; PollInv is inductive, so no poll comes too early.         *)
(***************************************************************************)
EXTENDS CursorPaging, DeviceFlow, SequenceTheorems, TLAPS

USE CursorPagingAssumption DEF CursorPagingAssumption
USE DeviceAssumption DEF DeviceAssumption

-----------------------------------------------------------------------------
\* Following a cursor.

\* The rows the walk has to return.
Stayed == present \ moved

\* Rows that were there all along are still listed, unless they were deleted.
StillListed == /\ \A r \in present : \E i \in DOMAIN list : list[i] = r
               /\ present \cap fresh = {}

\* A row that stayed only ever drifts towards the end of the list, so each one
\* before the cursor has been read.
Behind ==
  ~shrunk /\ ~faulty /\ pc = "walking" =>
    \A i \in DOMAIN list : list[i] \in Stayed /\ i <= cursor =>
      IF mode = "collect" THEN got[list[i]] = 1 ELSE list[i] # Target

WalkInv == /\ TypeOK
           /\ pc = "walking" => pages < MaxPages
           /\ StillListed
           /\ Behind
           /\ WalkComplete

\* A new head: the other rows move one place towards the end.
LEMMA Prepended ==
  ASSUME NEW s \in Seq(Rows), NEW r \in Rows
  PROVE LET t == <<r>> \o s IN
        /\ t \in Seq(Rows)
        /\ DOMAIN t = 1 .. (Len(s) + 1)
        /\ t[1] = r
        /\ \A i \in 2 .. (Len(s) + 1) : t[i] = s[i - 1]
<1> DEFINE h == <<r>>
<1>1. h \in Seq(Rows) /\ Len(h) = 1 /\ h[1] = r OBVIOUS
<1> HIDE DEF h
<1>4. /\ h \o s \in Seq(Rows) /\ Len(h \o s) = Len(h) + Len(s)
      /\ \A i \in 1 .. (Len(h) + Len(s)) :
           (h \o s)[i] = IF i <= Len(h) THEN h[i] ELSE s[i - Len(h)]
  BY <1>1, ConcatProperties
<1>5. Len(s) \in Nat /\ 1 + Len(s) = Len(s) + 1 OBVIOUS
<1>2. /\ h \o s \in Seq(Rows) /\ Len(h \o s) = Len(s) + 1
      /\ \A i \in 1 .. (Len(s) + 1) :
           (h \o s)[i] = IF i <= 1 THEN h[i] ELSE s[i - 1]
  BY <1>1, <1>4, <1>5
<1>3. Len(s) \in Nat /\ DOMAIN (h \o s) = 1 .. (Len(s) + 1) BY <1>2
<1>. QED BY <1>1, <1>2, <1>3 DEF h

\* Without the row at k: those after it move one place towards the head.
LEMMA Removed ==
  ASSUME NEW s \in Seq(Rows), NEW k \in DOMAIN s
  PROVE LET t == RemoveAt(s, k) IN
        /\ t \in Seq(Rows)
        /\ Len(s) \in Nat /\ k \in 1 .. Len(s)
        /\ Len(t) = Len(s) - 1
        /\ DOMAIN t = 1 .. (Len(s) - 1)
        /\ \A i \in 1 .. (Len(s) - 1) : t[i] = IF i < k THEN s[i] ELSE s[i + 1]
<1> DEFINE a == SubSeq(s, 1, k - 1)
           b == SubSeq(s, k + 1, Len(s))
<1>1. Len(s) \in Nat /\ k \in 1 .. Len(s) OBVIOUS
<1>2. a \in Seq(Rows) /\ Len(a) = k - 1 /\ \A i \in 1 .. (k - 1) : a[i] = s[i] BY <1>1
<1>3. b \in Seq(Rows) /\ Len(b) = Len(s) - k /\ \A i \in 1 .. (Len(s) - k) : b[i] = s[k + i] BY <1>1
<1>0. RemoveAt(s, k) = a \o b BY DEF RemoveAt
<1> HIDE DEF a, b
<1>4. /\ a \o b \in Seq(Rows) /\ Len(a \o b) = Len(s) - 1
      /\ \A i \in 1 .. (Len(s) - 1) :
           (a \o b)[i] = IF i <= k - 1 THEN a[i] ELSE b[i - (k - 1)]
  BY <1>1, <1>2, <1>3, ConcatProperties
<1>5. DOMAIN (a \o b) = 1 .. (Len(s) - 1) BY <1>4, <1>1
<1>6. ASSUME NEW i \in 1 .. (Len(s) - 1)
      PROVE (a \o b)[i] = IF i < k THEN s[i] ELSE s[i + 1]
  <2>1. CASE i < k BY <2>1, <1>1, <1>2, <1>4
  <2>2. CASE ~(i < k)
    <3>1. i - (k - 1) \in 1 .. (Len(s) - k) /\ k + (i - (k - 1)) = i + 1 BY <2>2, <1>1
    <3>. QED BY <3>1, <2>2, <1>1, <1>3, <1>4
  <2>. QED BY <2>1, <2>2
<1>. QED BY <1>0, <1>1, <1>4, <1>5, <1>6

\* A row at the head, the others in order: each keeps its place or moves one
\* place towards the end.
LEMMA Drifted ==
  ASSUME NEW s \in Seq(Rows), NEW k \in DOMAIN s
  PROVE LET t == <<s[k]>> \o RemoveAt(s, k) IN
        /\ t \in Seq(Rows)
        /\ DOMAIN t = DOMAIN s
        /\ \A i \in DOMAIN t : t[i] = s[k] \/ (\E j \in DOMAIN s : j <= i /\ t[i] = s[j])
        /\ \A j \in DOMAIN s : \E i \in DOMAIN t : t[i] = s[j]
<1> DEFINE u == RemoveAt(s, k)
<1>1. /\ u \in Seq(Rows) /\ Len(s) \in Nat /\ k \in 1 .. Len(s)
      /\ Len(u) = Len(s) - 1
      /\ \A i \in 1 .. (Len(s) - 1) : u[i] = IF i < k THEN s[i] ELSE s[i + 1]
  BY Removed
<1>2. s[k] \in Rows /\ DOMAIN s = 1 .. Len(s) OBVIOUS
<1> HIDE DEF u
<1> DEFINE t == <<s[k]>> \o u
<1>3. /\ t \in Seq(Rows) /\ DOMAIN t = 1 .. (Len(u) + 1) /\ t[1] = s[k]
      /\ \A i \in 2 .. (Len(u) + 1) : t[i] = u[i - 1]
  BY <1>1, <1>2, Prepended
<1> HIDE DEF t
<1>4. DOMAIN t = DOMAIN s BY <1>1, <1>2, <1>3
<1>5. ASSUME NEW i \in DOMAIN t
      PROVE t[i] = s[k] \/ (\E j \in DOMAIN s : j <= i /\ t[i] = s[j])
  <2>1. CASE i = 1 BY <2>1, <1>3
  <2>2. CASE i # 1
    <3>1. i \in 2 .. Len(s) /\ i - 1 \in 1 .. (Len(s) - 1) /\ i \in DOMAIN s /\ i - 1 \in DOMAIN s
      BY <2>2, <1>1, <1>2, <1>3
    <3>2. t[i] = IF i - 1 < k THEN s[i - 1] ELSE s[i] BY <3>1, <1>1, <1>3
    <3>. QED BY <3>1, <3>2
  <2>. QED BY <2>1, <2>2
<1>6. ASSUME NEW j \in DOMAIN s PROVE \E i \in DOMAIN t : t[i] = s[j]
  <2>1. CASE j = k
    <3>1. 1 \in DOMAIN t BY <1>1, <1>3
    <3>. QED BY <3>1, <2>1, <1>3
  <2>2. CASE j < k
    <3>1. j \in 1 .. (Len(s) - 1) /\ j + 1 \in 2 .. (Len(u) + 1) /\ j + 1 \in DOMAIN t
      BY <2>2, <1>1, <1>2, <1>3
    <3>2. t[j + 1] = u[j] /\ u[j] = s[j] BY <3>1, <2>2, <1>1, <1>2, <1>3
    <3>. QED BY <3>1, <3>2
  <2>3. CASE j > k
    <3>1. j - 1 \in 1 .. (Len(s) - 1) /\ ~(j - 1 < k) /\ j \in 2 .. (Len(u) + 1) /\ j \in DOMAIN t
      BY <2>3, <1>1, <1>2, <1>3
    <3>2. t[j] = u[j - 1] /\ u[j - 1] = s[j] BY <3>1, <1>1, <1>2, <1>3
    <3>. QED BY <3>1, <3>2
  <2>. QED BY <2>1, <2>2, <2>3, <1>1, <1>2
<1>. QED BY <1>3, <1>4, <1>5, <1>6 DEF t, u

\* The list changes between two pages: nothing of the walk changes, so what the
\* walk has read stays read as long as no row that stayed moves forward.
LEMMA ListStep ==
  ASSUME WalkInv, UNCHANGED <<faulty, walk>>,
         list' \in Seq(Rows), fresh' \subseteq Rows, present' \subseteq present, moved \subseteq moved',
         moved' \subseteq Rows, shrunk' \in BOOLEAN, shrunk => shrunk',
         StillListed',
         ~shrunk' => \A i \in DOMAIN list' : list'[i] \in Stayed' =>
                       \E j \in DOMAIN list : j <= i /\ list'[i] = list[j]
  PROVE WalkInv'
<1> USE DEF WalkInv
<1>1. TypeOK' BY DEF TypeOK, walk
<1>2. (pc = "walking" => pages < MaxPages)' BY DEF walk
<1>3. Stayed' \subseteq Stayed BY DEF Stayed
<1>4. Behind'
  <2>1. SUFFICES ASSUME ~shrunk', ~faulty, pc = "walking", NEW i \in DOMAIN list',
                        list'[i] \in Stayed', i <= cursor
                 PROVE IF mode = "collect" THEN got[list'[i]] = 1 ELSE list'[i] # Target
    BY DEF Behind, walk
  <2>2. PICK j \in DOMAIN list : j <= i /\ list'[i] = list[j] BY <2>1
  <2>3. j \in Nat /\ i \in Nat /\ cursor \in Nat BY <2>1 DEF TypeOK
  <2>4. j <= cursor BY <2>1, <2>2, <2>3
  <2>5. list[j] \in Stayed BY <1>3, <2>1, <2>2
  <2>. QED BY <2>1, <2>2, <2>4, <2>5 DEF Behind
<1>5. WalkComplete'
  BY <1>3 DEF WalkComplete, NoDuplicates, CompleteUnlessShrunk, FoundUnlessShrunk, Stayed, walk
<1>. QED BY <1>1, <1>2, <1>4, <1>5

\* A row appears at the head.
LEMMA CreateStep ==
  ASSUME WalkInv, NEW r \in Rows, Create(r)
  PROVE WalkInv'
<1> USE DEF WalkInv, Create
<1>1. list \in Seq(Rows) /\ Len(list) \in Nat /\ DOMAIN list = 1 .. Len(list) BY DEF TypeOK
<1>2. /\ list' \in Seq(Rows) /\ DOMAIN list' = 1 .. (Len(list) + 1) /\ list'[1] = r
      /\ \A i \in 2 .. (Len(list) + 1) : list'[i] = list[i - 1]
  BY <1>1, Prepended
<1>3. StillListed'
  <2>1. SUFFICES ASSUME NEW q \in present PROVE \E i \in DOMAIN list' : list'[i] = q
    BY DEF StillListed
  <2>2. PICK j \in DOMAIN list : list[j] = q BY DEF StillListed
  <2>3. j + 1 \in 2 .. (Len(list) + 1) /\ j + 1 \in DOMAIN list' /\ (j + 1) - 1 = j BY <1>1, <1>2
  <2>. QED BY <1>2, <2>2, <2>3
<1>4. ASSUME NEW i \in DOMAIN list', list'[i] \in Stayed'
      PROVE \E j \in DOMAIN list : j <= i /\ list'[i] = list[j]
  <2>1. CASE i = 1
    <3>. QED BY <1>2, <1>4, <2>1 DEF Stayed, StillListed
  <2>2. CASE i # 1
    <3>1. i \in 2 .. (Len(list) + 1) /\ i - 1 \in DOMAIN list /\ i - 1 <= i BY <1>1, <1>2, <2>2
    <3>. QED BY <1>2, <3>1
  <2>. QED BY <2>1, <2>2
<1>. QED BY <1>2, <1>3, <1>4, ListStep DEF TypeOK

\* A row disappears.
LEMMA DeleteStep ==
  ASSUME WalkInv, NEW k \in DOMAIN list, Delete(k)
  PROVE WalkInv'
<1> USE DEF WalkInv, Delete
<1>0. list \in Seq(Rows) BY DEF TypeOK
<1>1. /\ list' \in Seq(Rows) /\ Len(list) \in Nat /\ k \in 1 .. Len(list)
      /\ DOMAIN list' = 1 .. (Len(list) - 1)
      /\ \A i \in 1 .. (Len(list) - 1) : list'[i] = IF i < k THEN list[i] ELSE list[i + 1]
  BY <1>0, Removed
<1>2. DOMAIN list = 1 .. Len(list) BY <1>0
<1>3. StillListed'
  <2>1. SUFFICES ASSUME NEW q \in present, q # list[k] PROVE \E i \in DOMAIN list' : list'[i] = q
    BY DEF StillListed
  <2>2. PICK j \in DOMAIN list : list[j] = q BY DEF StillListed
  <2>3. CASE j < k
    <3>1. j \in 1 .. (Len(list) - 1) BY <1>1, <1>2, <2>3
    <3>. QED BY <1>1, <2>2, <2>3, <3>1
  <2>4. CASE j > k
    <3>1. j - 1 \in 1 .. (Len(list) - 1) /\ ~(j - 1 < k) /\ (j - 1) + 1 = j BY <1>1, <1>2, <2>4
    <3>. QED BY <1>1, <2>2, <3>1
  <2>. QED BY <1>1, <1>2, <2>1, <2>2, <2>3, <2>4
<1>. QED BY <1>1, <1>3, ListStep DEF TypeOK

\* A row moves to the head.
LEMMA MoveStep ==
  ASSUME WalkInv, NEW k \in DOMAIN list, Move(k)
  PROVE WalkInv'
<1> USE DEF WalkInv, Move
<1>0. list \in Seq(Rows) BY DEF TypeOK
<1>1. /\ list' \in Seq(Rows)
      /\ DOMAIN list' = DOMAIN list
      /\ \A i \in DOMAIN list' : list'[i] = list[k] \/ (\E j \in DOMAIN list : j <= i /\ list'[i] = list[j])
      /\ \A j \in DOMAIN list : \E i \in DOMAIN list' : list'[i] = list[j]
  BY <1>0, Drifted
<1>2. list[k] \in Rows BY <1>0
<1>3. StillListed'
  <2>1. SUFFICES ASSUME NEW q \in present PROVE \E i \in DOMAIN list' : list'[i] = q
    BY DEF StillListed
  <2>2. PICK j \in DOMAIN list : list[j] = q BY DEF StillListed
  <2>. QED BY <1>1, <2>2
<1>4. ASSUME NEW i \in DOMAIN list', list'[i] \in Stayed'
      PROVE \E j \in DOMAIN list : j <= i /\ list'[i] = list[j]
  BY <1>1, <1>4 DEF Stayed
<1>. QED BY <1>1, <1>2, <1>3, <1>4, ListStep DEF TypeOK

\* An answer of a server that keeps to the protocol is the page asked for, or
\* the whole list.
LEMMA AnswerRead ==
  ASSUME TypeOK, NEW a \in Answers
  PROVE /\ a.rows \subseteq Rows
        /\ a.next \in Nat \cup {NoCursor}
        /\ ~faulty =>
             /\ a.more => a.next = cursor + PageSize
             /\ \A i \in DOMAIN list : (cursor < i) /\ (a.more => i <= cursor + PageSize) =>
                  list[i] \in a.rows
<1>1. /\ list \in Seq(Rows) /\ Len(list) \in Nat /\ DOMAIN list = 1 .. Len(list)
      /\ \A i \in DOMAIN list : list[i] \in Rows
      /\ cursor \in Nat
  BY DEF TypeOK
<1>2. PageAt(cursor) \subseteq Rows /\ ToSet(list) \subseteq Rows BY <1>1 DEF PageAt, ToSet
<1>3. CASE a = [rows |-> PageAt(cursor), more |-> cursor + PageSize < Len(list), next |-> cursor + PageSize]
  <2>1. /\ a.rows = PageAt(cursor) /\ a.next = cursor + PageSize
        /\ a.more <=> cursor + PageSize < Len(list)
    BY <1>3
  <2>2. ASSUME NEW i \in DOMAIN list, cursor < i, a.more => i <= cursor + PageSize
        PROVE list[i] \in a.rows
    <3>1. i <= cursor + PageSize BY <1>1, <2>1, <2>2
    <3>. QED BY <2>1, <2>2, <3>1 DEF PageAt
  <2>. QED BY <1>1, <1>2, <2>1, <2>2
<1>4. CASE cursor = 0 /\ a = [rows |-> ToSet(list), more |-> FALSE, next |-> NoCursor]
  BY <1>1, <1>2, <1>4 DEF ToSet
<1>5. CASE faulty /\ \E n \in {NoCursor} \cup 1 .. Len(list) :
             a = [rows |-> PageAt(cursor), more |-> TRUE, next |-> n]
  BY <1>1, <1>2, <1>5
<1>. QED BY <1>3, <1>4, <1>5 DEF Answers

\* The page is read: the walk ends or goes on behind it.
LEMMA FetchStep ==
  ASSUME WalkInv, Fetch
  PROVE WalkInv'
<1> USE DEF WalkInv
<1>1. pc = "walking" /\ UNCHANGED <<faulty, list, fresh, present, moved, shrunk, mode>> BY DEF Fetch
<1>2. PICK a \in Answers :
        \/ /\ mode = "find" /\ Target \in a.rows
           /\ pc' = "found"
           /\ UNCHANGED <<cursor, seen, pages, got>>
        \/ /\ mode = "find" /\ Target \notin a.rows
           /\ Follow(a)
           /\ UNCHANGED got
        \/ /\ mode = "collect"
           /\ Keep(a.rows)
           /\ Follow(a)
  BY DEF Fetch
<1>3. /\ a.rows \subseteq Rows
      /\ a.next \in Nat \cup {NoCursor}
      /\ ~faulty =>
           /\ a.more => a.next = cursor + PageSize
           /\ \A i \in DOMAIN list : (cursor < i) /\ (a.more => i <= cursor + PageSize) =>
                list[i] \in a.rows
  BY AnswerRead
<1>4. pages < MaxPages /\ pages \in Nat /\ cursor \in Nat /\ seen \subseteq Nat BY <1>1 DEF TypeOK
<1>5. StillListed' BY <1>1 DEF StillListed
<1>6. got' \in [Rows -> Nat] /\ NoDuplicates'
      /\ \A r \in Rows : got[r] = 1 \/ (mode = "collect" /\ r \in a.rows) => got'[r] = 1
  BY <1>2 DEF TypeOK, WalkComplete, NoDuplicates, Keep
<1>7. CASE pc' = "found" /\ UNCHANGED <<cursor, seen, pages>>
  BY <1>1, <1>4, <1>5, <1>6, <1>7
     DEF TypeOK, Behind, WalkComplete, CompleteUnlessShrunk, FoundUnlessShrunk
<1>8. CASE Follow(a) /\ (mode = "find" => Target \notin a.rows)
  <2>1. pages' = pages + 1 /\ pages' \in 0 .. MaxPages BY <1>4, <1>8 DEF Follow
  \* What a server that keeps to the protocol has sent so far.
  <2>2. ASSUME ~shrunk, ~faulty, NEW i \in DOMAIN list, list[i] \in Stayed,
               a.more => i <= cursor + PageSize
        PROVE IF mode = "collect" THEN got'[list[i]] = 1 ELSE list[i] # Target
    <3>1. i \in Nat /\ list[i] \in Rows BY DEF TypeOK
    <3>2. CASE i <= cursor BY <1>1, <1>6, <2>2, <3>1, <3>2 DEF Behind
    <3>3. CASE cursor < i
      <4>1. list[i] \in a.rows BY <1>3, <2>2, <3>3
      <4>2. mode \in {"collect", "find"} BY DEF TypeOK
      <4>. QED BY <1>6, <1>8, <3>1, <4>1, <4>2
    <3>. QED BY <1>4, <3>1, <3>2, <3>3
  <2>3. CASE LastPage(a)
    <3>1. /\ ~a.more /\ UNCHANGED <<cursor, seen>>
          /\ pc' = IF mode = "collect" THEN "complete" ELSE "unknown"
      BY <2>3 DEF LastPage
    <3>2. TypeOK' BY <1>1, <1>6, <2>1, <3>1 DEF TypeOK
    <3>3. ASSUME ~shrunk, ~faulty, NEW r \in Stayed
          PROVE IF mode = "collect" THEN got'[r] = 1 ELSE r # Target
      <4>1. PICK i \in DOMAIN list : list[i] = r BY <3>3 DEF Stayed, StillListed
      <4>. QED BY <2>2, <3>1, <3>3, <4>1
    <3>4. CompleteUnlessShrunk' /\ FoundUnlessShrunk'
      BY <1>1, <3>1, <3>3 DEF CompleteUnlessShrunk, FoundUnlessShrunk, Stayed
    <3>. QED BY <1>5, <1>6, <3>1, <3>2, <3>4 DEF Behind, WalkComplete
  <2>4. CASE a.more /\ (a.next = NoCursor \/ a.next \in seen) /\ pc' = "error" /\ UNCHANGED <<cursor, seen>>
    BY <1>1, <1>4, <1>5, <1>6, <2>1, <2>4
       DEF TypeOK, Behind, WalkComplete, CompleteUnlessShrunk, FoundUnlessShrunk
  <2>5. CASE /\ a.more /\ a.next # NoCursor
             /\ seen' = seen \cup {a.next}
             /\ cursor' = a.next
             /\ pc' = IF pages' = MaxPages THEN "error" ELSE pc
    <3>1. cursor' \in Nat /\ seen' \subseteq Nat BY <1>3, <1>4, <2>5
    <3>2. TypeOK' BY <1>1, <1>6, <2>1, <2>5, <3>1 DEF TypeOK
    <3>3. (pc = "walking" => pages < MaxPages)' BY <2>1, <2>5
    <3>4. Behind'
      <4>1. SUFFICES ASSUME ~shrunk, ~faulty, NEW i \in DOMAIN list, list[i] \in Stayed, i <= cursor'
                     PROVE IF mode = "collect" THEN got'[list[i]] = 1 ELSE list[i] # Target
        BY <1>1 DEF Behind, Stayed
      <4>2. i <= cursor + PageSize BY <1>3, <2>5, <4>1
      <4>. QED BY <2>2, <4>1, <4>2
    <3>5. CompleteUnlessShrunk' /\ FoundUnlessShrunk'
      BY <1>1, <2>5 DEF CompleteUnlessShrunk, FoundUnlessShrunk
    <3>. QED BY <1>5, <1>6, <3>2, <3>3, <3>4, <3>5 DEF WalkComplete
  <2>. QED BY <1>8, <2>3, <2>4, <2>5 DEF Follow
<1>. QED BY <1>2, <1>7, <1>8

\* The walk starts right.
LEMMA WalkStart == Init => WalkInv
<1> SUFFICES ASSUME Init PROVE WalkInv OBVIOUS
<1> USE DEF Init
<1>1. list \in Seq(Rows)
  <2>1. PICK n \in 0 .. Cardinality(Rows) : list \in [1 .. n -> Rows] BY DEF Lists
  <2>2. n \in Nat OBVIOUS
  <2>. QED BY <2>1, <2>2
<1>2. \A i \in DOMAIN list : list[i] \in Rows /\ i \in Nat /\ i > 0 BY <1>1
<1>3. TypeOK
  <2>1. present \subseteq Rows BY <1>2 DEF ToSet
  <2>2. got \in [Rows -> Nat] OBVIOUS
  <2>3. fresh \subseteq Rows /\ moved \subseteq Rows /\ seen \subseteq Nat OBVIOUS
  <2>4. cursor \in Nat /\ pages \in 0 .. MaxPages OBVIOUS
  <2>5. faulty \in BOOLEAN /\ shrunk \in BOOLEAN OBVIOUS
  <2>6. mode \in {"collect", "find"} /\ pc = "walking" OBVIOUS
  <2> HIDE DEF Init
  <2>. QED BY <1>1, <2>1, <2>2, <2>3, <2>4, <2>5, <2>6 DEF TypeOK
<1>4. StillListed BY DEF StillListed, ToSet
<1>5. Behind BY <1>2 DEF Behind
<1>6. WalkComplete
  BY DEF WalkComplete, NoDuplicates, CompleteUnlessShrunk, FoundUnlessShrunk
<1>. QED BY <1>3, <1>4, <1>5, <1>6 DEF WalkInv

\* WalkInv holds in every state a walk reaches, whatever happens to the list
\* between two pages and whatever a faulty server sends.
THEOREM WalkInductive == Spec => []WalkInv
<1>1. Init => WalkInv BY WalkStart
<1>2. WalkInv /\ [Next]_vars => WalkInv'
  <2>1. SUFFICES ASSUME WalkInv, [Next]_vars PROVE WalkInv' OBVIOUS
  <2>2. CASE Fetch BY <2>1, <2>2, FetchStep
  <2>3. CASE Fail
    BY <2>1, <2>3
       DEF Fail, WalkInv, TypeOK, StillListed, Behind, WalkComplete, NoDuplicates,
           CompleteUnlessShrunk, FoundUnlessShrunk
  <2>4. ASSUME NEW r \in Rows, Create(r) PROVE WalkInv' BY <2>1, <2>4, CreateStep
  <2>5. ASSUME NEW k \in DOMAIN list, Delete(k) PROVE WalkInv' BY <2>1, <2>5, DeleteStep
  <2>6. ASSUME NEW k \in DOMAIN list, Move(k) PROVE WalkInv' BY <2>1, <2>6, MoveStep
  <2>7. CASE UNCHANGED vars
    BY <2>1, <2>7
       DEF vars, WalkInv, TypeOK, StillListed, Behind, Stayed, WalkComplete, NoDuplicates,
           CompleteUnlessShrunk, FoundUnlessShrunk
  <2>. QED BY <2>1, <2>2, <2>3, <2>4, <2>5, <2>6, <2>7 DEF Next
<1>. QED BY <1>1, <1>2, PTL DEF Spec

\* No row is returned twice, and a walk of list_agents or of
\* _find_context_by_name that reaches the last page misses no row that stayed
\* where it was, unless one was deleted meanwhile.
THEOREM NoRowMissed == Spec => []WalkComplete
<1>1. WalkInv => WalkComplete BY DEF WalkInv
<1>. QED BY <1>1, WalkInductive, PTL
-----------------------------------------------------------------------------
\* Polling for a token.

\* The client counts every slow_down the server counts.
SameInterval == flow.interval = grant.interval

\* The next poll will be far enough from the last reply, or at the end of the
\* code's lifetime.
Spaced ==
  /\ DeviceAt("idle") \/ DeviceAt("prompt") => asked.at = 0 /\ asked.gap = 0
  /\ DeviceAt("check") => now + flow.wait >= asked.at + asked.gap \/ now + flow.wait >= flow.expires
  /\ DeviceAt("sleep") =>
       \/ flow.from + flow.wait >= asked.at + asked.gap
       \/ flow.from + flow.wait >= flow.expires
  /\ DeviceAt("post") => flow.from >= asked.at + asked.gap \/ flow.from >= flow.expires

\* Once a poll was late the login ends at the next look at the clock.
LateEnds ==
  late = 0 \/ (late = 1 /\ now >= flow.expires /\ flow.pc \in {"check", "post"} \cup Over)

PollInv == DeviceTypeOK /\ SameInterval /\ Spaced /\ LateEnds

\* The larger of two numbers.
LEMMA MaxOfTwo ==
  ASSUME NEW a \in Nat, NEW b \in Nat
  PROVE Max({a, b}) \in Nat /\ Max({a, b}) >= a /\ Max({a, b}) >= b /\ Max({a, b}) \in {a, b}
<1>1. \E x \in {a, b} : \A y \in {a, b} : x >= y OBVIOUS
<1>2. Max({a, b}) \in {a, b} /\ \A y \in {a, b} : Max({a, b}) >= y BY <1>1 DEF Max
<1>. QED BY <1>2

\* The smaller of two numbers.
LEMMA MinOfTwo ==
  ASSUME NEW a \in Nat, NEW b \in Nat
  PROVE Min({a, b}) \in Nat /\ Min({a, b}) \in {a, b} /\ Min({a, b}) <= a /\ Min({a, b}) <= b
<1>1. \E x \in {a, b} : \A y \in {a, b} : x <= y OBVIOUS
<1>2. Min({a, b}) \in {a, b} /\ \A y \in {a, b} : Min({a, b}) <= y BY <1>1 DEF Min
<1>. QED BY <1>2

\* The fields of the command's state, of the grant and of the last reply.
LEMMA DeviceFields ==
  ASSUME DeviceTypeOK
  PROVE /\ now \in Nat /\ late \in Nat
        /\ asked.at \in Nat /\ asked.gap \in Nat
        /\ grant.interval \in Nat /\ grant.expires \in Nat
        /\ grant.code \in {"none", "pending", "approved", "denied"}
        /\ grant.invites \in {"off", "old", "new"}
        /\ flow.pc \in {"idle", "prompt", "check", "sleep", "post"} \cup Over
        /\ flow.interval \in Nat /\ flow.expires \in Nat /\ flow.wait \in Nat /\ flow.from \in Nat
        /\ flow.invite \in {"none", "token", "link", "elsewhere"}
        /\ flow.prompt \in {"device", "hand_off", "two_step", "disabled"}
BY DEF DeviceTypeOK

\* A pause is as long as the interval and Retry-After, or ends the lifetime.
LEMMA PauseBounds ==
  ASSUME DeviceTypeOK, NEW r \in Nat
  PROVE LET w == Pause(r, flow.interval) IN
        /\ w \in Nat
        /\ w >= Max({flow.interval, r}) \/ now + w >= flow.expires
<1> DEFINE left == IF flow.expires > now THEN flow.expires - now ELSE 0
           m == Max({r, flow.interval})
<1>1. now \in Nat /\ flow.expires \in Nat /\ flow.interval \in Nat BY DeviceFields
<1>2. left \in Nat /\ now + left >= flow.expires BY <1>1
<1>3. m \in Nat /\ m = Max({flow.interval, r})
  <2>1. {r, flow.interval} = {flow.interval, r} OBVIOUS
  <2>. QED BY <1>1, <2>1, MaxOfTwo
<1>4. Pause(r, flow.interval) = Min({m, left}) BY DEF Pause
<1> HIDE DEF left, m
<1>5. Min({m, left}) \in Nat /\ (Min({m, left}) = m \/ Min({m, left}) = left)
  BY <1>2, <1>3, MinOfTwo
<1>. QED BY <1>1, <1>2, <1>3, <1>4, <1>5

\* Back to the check, with a new pause.
LEMMA PollAgainStep ==
  ASSUME PollInv, DeviceAt("post"), NEW i \in Nat, NEW w \in Nat, NEW g \in Nat,
         PollAgain(i, w), Asks(g), UNCHANGED <<now, late>>,
         grant' = [grant EXCEPT !.interval = i],
         w >= g \/ now + w >= flow.expires
  PROVE PollInv'
<1> USE DEF PollInv
<1>0. /\ now \in Nat /\ flow.expires \in Nat
      /\ flow.pc = "post"
  BY DeviceFields DEF DeviceAt
<1>1. flow' = [flow EXCEPT !.pc = "check", !.interval = i, !.wait = w] BY DEF PollAgain
<1>2. /\ flow'.pc = "check" /\ flow'.interval = i /\ flow'.wait = w
      /\ flow'.expires = flow.expires
      /\ grant'.interval = i
  BY <1>1 DEF DeviceTypeOK
<1>3. asked'.at = now /\ asked'.gap = g BY DEF Asks
<1>4. DeviceTypeOK' BY <1>0, <1>1 DEF DeviceTypeOK, Asks
<1>5. SameInterval' BY <1>2 DEF SameInterval
<1>6. Spaced' BY <1>0, <1>2, <1>3 DEF Spaced, DeviceAt
<1>7. LateEnds' BY <1>0, <1>2 DEF LateEnds
<1>. QED BY <1>4, <1>5, <1>6, <1>7

\* The command changes where it is, and perhaps its prompt: not its clocks.
LEMMA MovedOn ==
  ASSUME DeviceTypeOK, NEW p \in {"idle", "prompt", "check", "sleep", "post"} \cup Over,
         flow' = [flow EXCEPT !.pc = p]
  PROVE /\ flow' \in [pc : {"idle", "prompt", "check", "sleep", "post"} \cup Over,
                      interval : Nat, expires : Nat, wait : Nat, from : Nat,
                      invite : {"none", "token", "link", "elsewhere"},
                      prompt : {"device", "hand_off", "two_step", "disabled"}]
        /\ flow'.pc = p /\ flow'.interval = flow.interval /\ flow'.expires = flow.expires
        /\ flow'.wait = flow.wait /\ flow'.from = flow.from
        /\ flow'.invite = flow.invite /\ flow'.prompt = flow.prompt
BY DEF DeviceTypeOK

\* Each step of the login keeps PollInv.
LEMMA PollStart == DeviceInit => PollInv
BY DEF DeviceInit, PollInv, DeviceTypeOK, SameInterval, Spaced, LateEnds, DeviceAt

\* The answer with the device code preserves the invariant.
LEMMA AuthorizeStep ==
  ASSUME PollInv, authorize_device
  PROVE PollInv'
<1> USE DEF PollInv
<1>1. /\ now \in Nat /\ flow.pc = "idle" /\ late = 0 /\ UNCHANGED <<asked, late>>
      /\ asked.at = 0 /\ asked.gap = 0
  BY DeviceFields DEF authorize_device, DeviceAt, LateEnds, Over, Spaced
<1>2. CASE /\ grant' = [grant EXCEPT !.code = "pending", !.expires = now + Lifetime]
           /\ \E latency \in 0 .. MaxLatency :
                /\ now' = now + latency
                /\ flow' = [flow EXCEPT !.pc = "prompt", !.expires = now + latency + Lifetime]
  <2>1. PICK latency \in 0 .. MaxLatency :
               /\ now' = now + latency
               /\ flow' = [flow EXCEPT !.pc = "prompt", !.expires = now + latency + Lifetime]
    BY <1>2
  <2>2. now' \in Nat /\ now + Lifetime \in Nat /\ now + latency + Lifetime \in Nat BY <1>1, <2>1
  <2>3. flow'.pc = "prompt" /\ flow'.interval = flow.interval /\ grant'.interval = grant.interval
    BY <1>2, <2>1 DEF DeviceTypeOK
  <2>4. DeviceTypeOK' BY <1>1, <1>2, <2>1, <2>2 DEF DeviceTypeOK
  <2>. QED BY <1>1, <2>3, <2>4 DEF SameInterval, Spaced, LateEnds, DeviceAt
<1>3. CASE flow' = [flow EXCEPT !.pc = "error"] /\ UNCHANGED <<now, grant>>
  <2>1. DeviceTypeOK' BY <1>1, <1>3, MovedOn DEF DeviceTypeOK, Over
  <2>2. flow'.pc = "error" /\ flow'.interval = flow.interval BY <1>3, MovedOn DEF Over
  <2>. QED BY <1>1, <1>3, <2>1, <2>2 DEF SameInterval, Spaced, LateEnds, DeviceAt, Over
<1>. QED BY <1>2, <1>3 DEF authorize_device

\* Telling the person the code preserves the invariant.
LEMMA PromptStep ==
  ASSUME PollInv, _print_invite_prompt
  PROVE PollInv'
<1> USE DEF PollInv
<1>1. /\ now \in Nat /\ flow.pc = "prompt" /\ late = 0 /\ UNCHANGED <<now, grant, asked, late>>
      /\ asked.at = 0 /\ asked.gap = 0
  BY DeviceFields DEF _print_invite_prompt, DeviceAt, LateEnds, Over, Spaced
<1>2. CASE flow' = [flow EXCEPT !.pc = "check"] \/ flow' = [flow EXCEPT !.pc = "otherServer"]
  <2>1. PICK p \in {"check", "otherServer"} : flow' = [flow EXCEPT !.pc = p] BY <1>2
  <2>2. p \in {"idle", "prompt", "check", "sleep", "post"} \cup Over BY DEF Over
  <2>3. DeviceTypeOK' BY <1>1, <2>1, <2>2, MovedOn DEF DeviceTypeOK
  <2>4. /\ flow'.pc = p /\ flow'.interval = flow.interval /\ flow'.wait = flow.wait
        /\ flow'.wait \in Nat
    BY <2>1, <2>2, MovedOn, DeviceFields
  <2>. QED BY <1>1, <2>3, <2>4 DEF SameInterval, Spaced, LateEnds, DeviceAt
<1>3. ASSUME NEW info, NEW placed \in BOOLEAN,
             LET way == invite_support(info) IN
             flow' = [flow EXCEPT !.pc = "check", !.prompt = IF way = "hand_off" /\ ~placed THEN "two_step" ELSE way]
      PROVE PollInv'
  <2>1. PICK way \in {"disabled", "hand_off", "two_step"} :
               flow' = [flow EXCEPT !.pc = "check", !.prompt = way]
    BY <1>3 DEF invite_support
  <2>2. DeviceTypeOK' BY <1>1, <2>1 DEF DeviceTypeOK
  <2>3. /\ flow'.pc = "check" /\ flow'.interval = flow.interval /\ flow'.wait \in Nat
    BY <2>1 DEF DeviceTypeOK
  <2>. QED BY <1>1, <2>2, <2>3 DEF SameInterval, Spaced, LateEnds, DeviceAt
<1>. QED BY <1>2, <1>3 DEF _print_invite_prompt

\* The clock is looked at.
LEMMA CheckStep ==
  ASSUME PollInv, CheckExpiry
  PROVE PollInv'
<1> USE DEF PollInv
<1>1. /\ now \in Nat /\ flow.expires \in Nat /\ flow.wait \in Nat
      /\ flow.pc = "check" /\ UNCHANGED <<now, grant, asked, late>>
  BY DeviceFields DEF CheckExpiry, DeviceAt
<1>2. CASE now >= flow.expires
  <2>1. flow' = [flow EXCEPT !.pc = "expired"] BY <1>2 DEF CheckExpiry
  <2>2. "expired" \in Over BY DEF Over
  <2>3. DeviceTypeOK' BY <1>1, <2>1, <2>2, MovedOn DEF DeviceTypeOK
  <2>4. flow'.pc = "expired" /\ flow'.interval = flow.interval /\ flow'.expires = flow.expires
    BY <2>1, <2>2, MovedOn
  <2>. QED BY <1>1, <1>2, <2>2, <2>3, <2>4 DEF SameInterval, Spaced, LateEnds, DeviceAt
<1>3. CASE ~(now >= flow.expires)
  <2>1. flow' = [flow EXCEPT !.pc = "sleep", !.from = now] BY <1>3 DEF CheckExpiry
  <2>2. DeviceTypeOK' BY <1>1, <2>1 DEF DeviceTypeOK
  <2>3. /\ flow'.pc = "sleep" /\ flow'.interval = flow.interval /\ flow'.expires = flow.expires
        /\ flow'.wait = flow.wait /\ flow'.from = now
    BY <2>1 DEF DeviceTypeOK
  <2>4. late = 0 BY <1>1, <1>3 DEF LateEnds
  <2>. QED BY <1>1, <2>2, <2>3, <2>4 DEF SameInterval, Spaced, LateEnds, DeviceAt
<1>. QED BY <1>2, <1>3

\* A poll is sent.
LEMMA PostStep ==
  ASSUME PollInv, Post
  PROVE PollInv'
<1> USE DEF PollInv
<1>1. /\ now \in Nat /\ flow.expires \in Nat /\ flow.wait \in Nat /\ flow.from \in Nat
      /\ asked.at \in Nat /\ asked.gap \in Nat
      /\ flow.pc = "sleep" /\ now >= flow.from + flow.wait /\ late = 0
      /\ UNCHANGED <<now, grant, asked>>
  BY DeviceFields DEF Post, DeviceAt, LateEnds, Over
<1>2. flow' = [flow EXCEPT !.pc = "post", !.from = now] BY DEF Post
<1>3. /\ flow'.pc = "post" /\ flow'.interval = flow.interval /\ flow'.expires = flow.expires
      /\ flow'.from = now
  BY <1>2 DEF DeviceTypeOK
<1>4. late' = IF now >= flow.expires THEN 1 ELSE 0
  <2>1. Min({late + 1, 2}) = 1
    <3>1. late + 1 \in Nat /\ late + 1 = 1 BY <1>1
    <3>. QED BY <3>1, MinOfTwo
  <2>. QED BY <1>1, <2>1 DEF Post
<1>5. DeviceTypeOK' BY <1>1, <1>2, <1>4 DEF DeviceTypeOK
<1>6. Spaced' BY <1>1, <1>3 DEF Spaced, DeviceAt
<1>7. LateEnds' BY <1>1, <1>3, <1>4 DEF LateEnds
<1>. QED BY <1>1, <1>3, <1>5, <1>6, <1>7 DEF SameInterval

\* Time passes.
LEMMA TickStep ==
  ASSUME PollInv, DeviceTick
  PROVE PollInv'
<1> USE DEF PollInv
<1>1. /\ now \in Nat /\ flow.expires \in Nat /\ now' = now + 1
      /\ UNCHANGED <<grant, flow, asked, late>>
      /\ flow.pc \in {"sleep", "post"}
  BY DeviceFields DEF DeviceTick, DeviceAt
<1>2. DeviceTypeOK' BY <1>1 DEF DeviceTypeOK
<1>. QED BY <1>1, <1>2 DEF SameInterval, Spaced, LateEnds, DeviceAt

\* A reply that lets the polling go on.
LEMMA ReplyStep ==
  ASSUME PollInv, AuthorizationPending \/ SlowDown \/ TemporarilyUnavailable
  PROVE PollInv'
<1>0. DeviceTypeOK /\ flow.interval = grant.interval BY DEF PollInv, SameInterval
<1>1. flow.interval \in Nat /\ now \in Nat /\ flow.expires \in Nat BY <1>0, DeviceFields
<1>2. grant = [grant EXCEPT !.interval = flow.interval] BY <1>0 DEF DeviceTypeOK
<1>3. CASE AuthorizationPending
  BY <1>0, <1>1, <1>2, <1>3, PollAgainStep DEF AuthorizationPending
<1>4. CASE SlowDown
  <2> DEFINE longer == flow.interval + _SLOW_DOWN_INCREMENT_SEC
  <2>1. longer \in Nat BY <1>1 DEF _SLOW_DOWN_INCREMENT_SEC
  <2>2. grant' = [grant EXCEPT !.interval = longer] /\ grant'.interval = longer
    BY <1>0, <1>4 DEF SlowDown, DeviceTypeOK
  <2>3. /\ DeviceAt("post") /\ Asks(longer) /\ PollAgain(longer, longer) /\ UNCHANGED <<now, late>>
    BY <1>4, <2>2 DEF SlowDown
  <2> HIDE DEF longer
  <2>. QED BY <2>1, <2>2, <2>3, PollAgainStep
<1>5. CASE TemporarilyUnavailable
  <2>1. PICK r \in RetryAfters \cup {0} :
               /\ PollAgain(flow.interval, Pause(r, flow.interval))
               /\ Asks(Max({grant.interval, r}))
    BY <1>5 DEF TemporarilyUnavailable
  <2> DEFINE w == Pause(r, flow.interval)
             g == Max({flow.interval, r})
  <2>2. r \in Nat OBVIOUS
  <2>3. w \in Nat /\ (w >= g \/ now + w >= flow.expires) BY <1>0, <2>2, PauseBounds
  <2>4. g \in Nat BY <1>1, <2>2, MaxOfTwo
  <2>5. PollAgain(flow.interval, w) /\ Asks(g) BY <1>0, <2>1
  <2>6. DeviceAt("post") /\ UNCHANGED <<now, grant, late>> BY <1>5 DEF TemporarilyUnavailable
  <2> HIDE DEF w, g
  <2>. QED BY <1>1, <1>2, <2>3, <2>4, <2>5, <2>6, PollAgainStep
<1>. QED BY <1>3, <1>4, <1>5

\* A reply that ends it.
LEMMA EndedStep ==
  ASSUME PollInv, PollEnded
  PROVE PollInv'
<1> USE DEF PollInv
<1>1. PICK p \in {"token", "denied", "expired", "error"} : flow' = [flow EXCEPT !.pc = p]
  BY DEF PollEnded
<1>2. p \in Over /\ p \notin {"idle", "prompt", "check", "sleep", "post"} BY DEF Over
<1>3. UNCHANGED <<now, grant, asked, late>> BY DEF PollEnded
<1>4. DeviceTypeOK' BY <1>1, <1>2, <1>3, MovedOn DEF DeviceTypeOK
<1>5. flow'.pc = p /\ flow'.interval = flow.interval /\ flow'.expires = flow.expires
  BY <1>1, <1>2, MovedOn
<1>. QED BY <1>2, <1>3, <1>4, <1>5 DEF SameInterval, Spaced, LateEnds, DeviceAt

\* PollInv holds in every state a login reaches.
THEOREM PollInductive == DeviceSpec => []PollInv
<1>1. DeviceInit => PollInv BY PollStart
<1>2. PollInv /\ [DeviceNext]_deviceVars => PollInv'
  <2>1. SUFFICES ASSUME PollInv, [DeviceNext]_deviceVars PROVE PollInv' OBVIOUS
  <2>2. CASE authorize_device BY <2>1, <2>2, AuthorizeStep
  <2>3. CASE _print_invite_prompt BY <2>1, <2>3, PromptStep
  <2>4. CASE Decide
    <3>1. /\ UNCHANGED <<now, flow, asked, late>> /\ DeviceTypeOK
          /\ \E code \in {"approved", "denied"} : grant' = [grant EXCEPT !.code = code]
      BY <2>1, <2>4 DEF Decide, PollInv
    <3>2. DeviceTypeOK' /\ grant'.interval = grant.interval BY <3>1 DEF DeviceTypeOK
    <3>. QED BY <2>1, <3>1, <3>2 DEF PollInv, SameInterval, Spaced, LateEnds, DeviceAt
  <2>5. CASE CheckExpiry BY <2>1, <2>5, CheckStep
  <2>6. CASE Post BY <2>1, <2>6, PostStep
  <2>7. CASE DeviceTick BY <2>1, <2>7, TickStep
  <2>8. CASE AuthorizationPending \/ SlowDown \/ TemporarilyUnavailable BY <2>1, <2>8, ReplyStep
  <2>9. CASE PollEnded BY <2>1, <2>9, EndedStep
  <2>10. CASE UNCHANGED deviceVars
    BY <2>1, <2>10 DEF deviceVars, PollInv, DeviceTypeOK, SameInterval, Spaced, LateEnds, DeviceAt
  <2>. QED BY <2>1, <2>2, <2>3, <2>4, <2>5, <2>6, <2>7, <2>8, <2>9, <2>10 DEF DeviceNext, PollStep
<1>. QED BY <1>1, <1>2, PTL DEF DeviceSpec

\* No poll of the token endpoint comes sooner than the last reply asked for,
\* except for one at the end of the code's lifetime.
THEOREM PollsAreSpaced == DeviceSpec => []PollsSpaced
<1>1. PollInv => PollsSpaced BY DeviceFields DEF PollInv, Spaced, LateEnds, PollsSpaced
<1>. QED BY <1>1, PollInductive, PTL

\* What the prompt said of an invite stays true of the server while the login
\* polls.
THEOREM InviteIsKept == DeviceSpec => []InviteKept
<1>1. DeviceInit => InviteKept BY DEF DeviceInit, InviteKept
<1>2. DeviceTypeOK /\ InviteKept /\ [DeviceNext]_deviceVars => InviteKept'
  <2>1. SUFFICES ASSUME DeviceTypeOK, InviteKept, [DeviceNext]_deviceVars PROVE InviteKept' OBVIOUS
  <2>2. CASE authorize_device
    <3>1. flow'.pc \in {"prompt", "error"} BY <2>1, <2>2 DEF authorize_device, DeviceTypeOK
    <3>. QED BY <3>1 DEF InviteKept
  <2>3. CASE _print_invite_prompt
    <3>0. grant' = grant BY <2>3 DEF _print_invite_prompt
    <3>1. CASE /\ flow.invite \in {"none", "elsewhere"}
               /\ \/ flow' = [flow EXCEPT !.pc = "check"]
                  \/ flow' = [flow EXCEPT !.pc = "otherServer"]
      <4>1. flow'.invite \in {"none", "elsewhere"} BY <2>1, <3>1 DEF DeviceTypeOK
      <4>. QED BY <4>1 DEF InviteKept
    <3>2. ASSUME NEW info \in {grant.invites, "unread"}, NEW placed \in BOOLEAN,
                 LET way == invite_support(info) IN
                 flow' = [flow EXCEPT !.pc = "check", !.prompt = IF way = "hand_off" /\ ~placed THEN "two_step" ELSE way]
          PROVE InviteKept'
      <4>1. flow'.prompt = IF invite_support(info) = "hand_off" /\ ~placed
                           THEN "two_step" ELSE invite_support(info)
        BY <2>1, <3>2 DEF DeviceTypeOK
      <4>2. grant.invites \in {"off", "old", "new"} BY <2>1, DeviceFields
      <4>. QED BY <3>0, <4>1, <4>2 DEF InviteKept, invite_support
    <3>. QED BY <2>3, <3>1, <3>2 DEF _print_invite_prompt
  <2>4. CASE Decide
    <3>1. flow' = flow /\ grant'.invites = grant.invites BY <2>1, <2>4 DEF Decide, DeviceTypeOK
    <3>. QED BY <2>1, <3>1 DEF InviteKept
  <2>5. CASE CheckExpiry \/ Post \/ AuthorizationPending \/ SlowDown \/ TemporarilyUnavailable \/ PollEnded
    <3>1. /\ flow.pc \in {"check", "sleep", "post"}
          /\ flow'.invite = flow.invite /\ flow'.prompt = flow.prompt
      BY <2>1, <2>5
         DEF CheckExpiry, Post, AuthorizationPending, SlowDown, TemporarilyUnavailable, PollEnded,
             PollAgain, DeviceAt, DeviceTypeOK
    <3>2. grant'.invites = grant.invites
      BY <2>1, <2>5
         DEF CheckExpiry, Post, AuthorizationPending, SlowDown, TemporarilyUnavailable, PollEnded,
             DeviceTypeOK
    <3>. QED BY <2>1, <3>1, <3>2 DEF InviteKept
  <2>6. CASE DeviceTick BY <2>1, <2>6 DEF DeviceTick, InviteKept
  <2>7. CASE UNCHANGED deviceVars BY <2>1, <2>7 DEF deviceVars, InviteKept
  <2>. QED BY <2>1, <2>2, <2>3, <2>4, <2>5, <2>6, <2>7 DEF DeviceNext, PollStep
<1>3. PollInv => DeviceTypeOK BY DEF PollInv
<1>. QED BY <1>1, <1>2, <1>3, PollInductive, PTL DEF DeviceSpec
=============================================================================
