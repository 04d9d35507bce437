---------------------------- MODULE CursorPaging ----------------------------
(***************************************************************************)
(* Following the cursor of a paged MCP list tool (client.py:4969-5074).    *)
(* The cursor is an offset into a list that other people change between    *)
(* two pages: rows appear at its head, disappear, and, in the list of      *)
(* contexts, move to the head when they are used.  Two callers walk the    *)
(* pages: _collect_pages keeps every row once (list_agents), and           *)
(* _find_context_by_name (setup_claude.py:243-275) stops at the row it     *)
(* looks for.                                                              *)
(***************************************************************************)
EXTENDS Integers, Sequences, FiniteSets, SequencesExt

CONSTANTS Rows,      \* rows that ever exist
          Target,    \* the row _find_context_by_name looks for
          PageSize,  \* rows a page holds
          MaxPages   \* _MAX_AUTO_PAGES

ASSUME CursorPagingAssumption ==
  /\ Target \in Rows
  /\ PageSize \in Nat \ {0} /\ MaxPages \in Nat \ {0}

VARIABLES
  faulty,   \* the server sends any cursor, or none
  list,     \* the server's list, newest or last used first
  fresh,    \* rows that have not been created yet
  present,  \* rows in the list ever since the walk began
  moved,    \* those that moved meanwhile
  shrunk,   \* a row was removed since the walk began
  mode,     \* "collect" or "find"
  pc,       \* "walking", or how the walk ended
  cursor,   \* the cursor the next page is asked with; 0 asks for the first
  seen,     \* the cursors earlier pages sent
  pages,    \* pages the walk went past
  got       \* how often each row was kept

vars == <<faulty, list, fresh, present, moved, shrunk, mode, pc, cursor, seen, pages, got>>
walk == <<mode, pc, cursor, seen, pages, got>>

NoCursor == -1

\* Lists without repetitions.
Lists == {s \in UNION {[1 .. n -> Rows] : n \in 0 .. Cardinality(Rows)} :
            \A i, j \in DOMAIN s : s[i] = s[j] => i = j}

Init == /\ faulty \in BOOLEAN
        /\ list \in Lists
        /\ fresh = Rows \ ToSet(list)
        /\ present = ToSet(list)
        /\ moved = {}
        /\ shrunk = FALSE
        /\ mode \in {"collect", "find"}
        /\ pc = "walking"
        /\ cursor = 0
        /\ seen = {}
        /\ pages = 0
        /\ got = [r \in Rows |-> 0]

\* The rows of the page at offset c.
PageAt(c) == {list[i] : i \in {j \in DOMAIN list : c < j /\ j <= c + PageSize}}

\* What the server answers to the next request.  An old one sends the whole
\* list and no has_more.
Answers ==
  {[rows |-> PageAt(cursor), more |-> cursor + PageSize < Len(list),
    next |-> cursor + PageSize]}
  \cup (IF cursor = 0
        THEN {[rows |-> ToSet(list), more |-> FALSE, next |-> NoCursor]}
        ELSE {})
  \cup (IF faulty
        THEN {[rows |-> PageAt(cursor), more |-> TRUE, next |-> n] :
                n \in {NoCursor} \cup 1 .. Len(list)}
        ELSE {})

\* _collect_pages keeps the rows no earlier page returned.
Keep(new) == got' = [r \in Rows |-> IF r \in new /\ got[r] = 0 THEN 1 ELSE got[r]]

\* The last page ends the walk.
LastPage(a) == /\ ~a.more
               /\ pc' = IF mode = "collect" THEN "complete" ELSE "unknown"
               /\ UNCHANGED <<cursor, seen>>

\* Mutant: has_more is followed for ever.
FollowBlindly(a) ==
  /\ \/ LastPage(a)
     \/ /\ a.more
        /\ cursor' = IF a.next = NoCursor THEN 0 ELSE a.next
        /\ UNCHANGED <<pc, seen>>
  /\ UNCHANGED pages

\* Mutant: the next cursor is one too far.
FollowTooFar(a) ==
  /\ pages' = pages + 1
  /\ \/ LastPage(a)
     \/ /\ a.more
        /\ pc' = IF pages' = MaxPages THEN "error" ELSE pc
        /\ cursor' = a.next + 1
        /\ seen' = seen \cup {a.next}

\* _next_page_cursor, and the page limit of _iter_pages: a missing or repeated
\* cursor, or one page too many, is an error.
Follow(a) ==
  /\ pages' = pages + 1
  /\ \/ LastPage(a)
     \/ /\ a.more /\ (a.next = NoCursor \/ a.next \in seen)
        /\ pc' = "error"
        /\ UNCHANGED <<cursor, seen>>
     \/ /\ a.more /\ a.next # NoCursor /\ a.next \notin seen
        /\ seen' = seen \cup {a.next}
        /\ cursor' = a.next
        /\ pc' = IF pages' = MaxPages THEN "error" ELSE pc

\* One page is asked for, answered and read.
Fetch ==
  /\ pc = "walking"
  /\ \E a \in Answers :
       \/ /\ mode = "find" /\ Target \in a.rows
          /\ pc' = "found"
          /\ UNCHANGED <<cursor, seen, pages, got>>
       \/ /\ mode = "find" /\ Target \notin a.rows
          /\ Follow(a)
          /\ UNCHANGED got
       \/ /\ mode = "collect"
          /\ Keep(a.rows)
          /\ Follow(a)
  /\ UNCHANGED <<faulty, list, fresh, present, moved, shrunk, mode>>

\* The call fails, or a page cannot be parsed: the error goes to the caller.
Fail == /\ pc = "walking"
        /\ pc' = "error"
        /\ UNCHANGED <<faulty, list, fresh, present, moved, shrunk, mode, cursor, seen, pages, got>>

\* Somebody creates a row: it comes first.
Create(r) == /\ r \in fresh
             /\ fresh' = fresh \ {r}
             /\ list' = <<r>> \o list
             /\ UNCHANGED <<faulty, present, moved, shrunk, walk>>

\* Somebody deletes the row at i.
Delete(i) == /\ list' = RemoveAt(list, i)
             /\ present' = present \ {list[i]}
             /\ shrunk' = TRUE
             /\ UNCHANGED <<faulty, fresh, moved, walk>>

\* Somebody uses the row at i: it moves to the head.
Move(i) == /\ list' = <<list[i]>> \o RemoveAt(list, i)
           /\ moved' = moved \cup {list[i]}
           /\ UNCHANGED <<faulty, fresh, present, shrunk, walk>>

Next == \/ Fetch \/ Fail
        \/ \E r \in Rows : Create(r)
        \/ \E i \in DOMAIN list : Delete(i) \/ Move(i)

Spec == Init /\ [][Next]_vars

\* The caller keeps asking.
FairSpec == Spec /\ WF_vars(Fetch)
-----------------------------------------------------------------------------
\* Types; at most MaxPages pages are ever asked for.
TypeOK ==
  /\ faulty \in BOOLEAN
  /\ list \in Seq(Rows)
  /\ fresh \subseteq Rows
  /\ present \cup moved \subseteq Rows
  /\ shrunk \in BOOLEAN
  /\ mode \in {"collect", "find"}
  /\ pc \in {"walking", "complete", "unknown", "found", "error"}
  /\ cursor \in Nat
  /\ seen \subseteq Nat
  /\ pages \in 0 .. MaxPages
  /\ got \in [Rows -> Nat]

\* No row is listed twice, however the rows shift between pages.
NoDuplicates == \A r \in Rows : got[r] <= 1

\* A walk that ends as complete has every row that was in the list all along
\* and did not move, unless a row was deleted meanwhile, the one exception
\* the docs make (client.py:4976-4979); rows created meanwhile hide none.
CompleteUnlessShrunk ==
  pc = "complete" /\ ~shrunk /\ ~faulty => \A r \in present \ moved : got[r] = 1

\* Likewise a lookup does not miss a row that stayed where it was.
FoundUnlessShrunk == pc = "unknown" /\ ~shrunk /\ ~faulty => Target \notin present \ moved

\* What a walk returns is the list, whatever happened to it between pages.
WalkComplete == NoDuplicates /\ CompleteUnlessShrunk /\ FoundUnlessShrunk

\* Every walk ends, even if the server sends the same page for ever.
WalkEnds == <>(pc # "walking")
=============================================================================
