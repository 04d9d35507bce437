--------------------------- MODULE FileLockProofs ---------------------------
(***************************************************************************)
(* Proofs about FileLock, for any finite set of clients, any bound on      *)
(* tickets and any number of markers that people remove from under living  *)
(* clients: the marker protocol gives mutual exclusion up to those         *)
(* removals, leaves no stray marker, and implements Mutex until the first. *)
(***************************************************************************)
EXTENDS FileLock, FiniteSetTheorems, TLAPS

USE DEF Absent, None, InsidePC, PC, Inside, Waiting, Owns, Robbed, GoTo, people

\* The invariant holds initially.
LEMMA IInvInit == Init => IInv
<1> SUFFICES ASSUME Init PROVE IInv
  OBVIOUS
<1> USE DEF Init
<1>1. TypeOK
  <2>1. marker \in {Absent} \cup Nat
    OBVIOUS
  <2>2. legacy \in BOOLEAN /\ leaked \in BOOLEAN /\ window \in BOOLEAN
    OBVIOUS
  <2>3. next \in Nat \ {0} /\ misjudged \in Nat
    OBVIOUS
  <2>4. pc \in [Client -> PC] /\ ticket \in [Client -> Nat]
    OBVIOUS
  <2>5. late \subseteq Client
    OBVIOUS
  <2>. QED
    BY <2>1, <2>2, <2>3, <2>4, <2>5 DEF TypeOK
<1>2. \A p \in Client : ~Inside(p)
  OBVIOUS
<1>3. NoStrayMarker /\ TicketsUnique /\ LeakedIsNobodys
  BY <1>2 DEF NoStrayMarker, TicketsUnique, LeakedIsNobodys
<1>4. {p \in Client : Robbed(p)} = {}
  BY <1>2
<1>5. RobbedAreFew
  BY <1>4, FS_EmptySet DEF RobbedAreFew
<1>6. RobbedCanTell
  BY <1>2 DEF RobbedCanTell
<1>. QED
  BY <1>1, <1>3, <1>5, <1>6 DEF IInv

\* Every step keeps the type of the state.
LEMMA TypeStep == TypeOK /\ [Next]_vars => TypeOK'
<1> SUFFICES ASSUME TypeOK, [Next]_vars PROVE TypeOK'
  OBVIOUS
<1> USE DEF TypeOK, RemoveMarker
<1>1. ASSUME NEW p \in Client, Start(p) \/ Request(p) PROVE TypeOK'
  BY <1>1 DEF Start, Request
<1>2. ASSUME NEW p \in Client, Step(p) PROVE TypeOK'
  <2>1. Create(p) => TypeOK'
    BY DEF Create
  <2>2. Cleanup(p) \/ Unlink(p) => TypeOK'
    BY DEF Cleanup, Unlink
  <2>3. RefuseLegacy(p) \/ WriteOwner(p) \/ CheckLegacy(p) => TypeOK'
    BY DEF RefuseLegacy, WriteOwner, CheckLegacy
  <2>4. Leave(p) \/ ReadOwner(p) => TypeOK'
    BY DEF Leave, ReadOwner
  <2>. QED
    BY <1>2, <2>1, <2>2, <2>3, <2>4 DEF Step
<1>3. ASSUME NEW p \in Client,
             UnlinkFails(p) \/ Cancel(p) \/ DeadlinePasses(p) \/ Crash(p)
      PROVE TypeOK'
  BY <1>3 DEF UnlinkFails, Cancel, DeadlinePasses, Crash
<1>4. CASE Retire
  BY <1>4 DEF Retire
<1>5. CASE Misjudge
  <2>1. \/ UNCHANGED people
        \/ \E p \in Client : /\ misjudged' = misjudged + 1
                             /\ window' = (window \/ pc[p] \notin {"critical", "read"})
    BY <1>5 DEF Misjudge, RemovedFrom
  <2>2. misjudged' \in Nat
    BY <2>1
  <2>3. window' \in BOOLEAN
    BY <2>1, Zenon
  <2>. QED
    BY <1>5, <2>2, <2>3 DEF Misjudge
<1>6. CASE LegacyAppears
  BY <1>6 DEF LegacyAppears
<1>7. CASE UNCHANGED vars
  BY <1>7 DEF vars
<1>. QED
  BY <1>1, <1>2, <1>3, <1>4, <1>5, <1>6, <1>7 DEF Next
-----------------------------------------------------------------------------
\* The clients that lost their marker.
Out == {p \in Client : Robbed(p)}

LEMMA OutFinite ==
  /\ IsFiniteSet(Out) /\ Cardinality(Out) \in Nat
  /\ IsFiniteSet(Out') /\ Cardinality(Out') \in Nat
<1>1. IsFiniteSet(Client) /\ Out \subseteq Client /\ Out' \subseteq Client
  BY FileLockAssumption DEF Out
<1>. QED
  BY <1>1, FS_Subset, FS_CardinalityType

LEMMA AddOne ==
  ASSUME NEW q
  PROVE  /\ IsFiniteSet(Out \cup {q})
         /\ Cardinality(Out \cup {q}) <= Cardinality(Out) + 1
<1>1. /\ IsFiniteSet(Out \cup {q})
      /\ \/ Cardinality(Out \cup {q}) = Cardinality(Out)
         \/ Cardinality(Out \cup {q}) = Cardinality(Out) + 1
  BY OutFinite, FS_AddElement
<1>. QED
  BY <1>1, OutFinite

\* A step after which no more clients have lost their marker.
LEMMA NoMoreOut ==
  ASSUME TypeOK, RobbedAreFew, Out' \subseteq Out, misjudged' = misjudged
  PROVE  RobbedAreFew'
<1>1. Cardinality(Out') <= Cardinality(Out)
  BY OutFinite, FS_Subset
<1>. QED
  BY <1>1, OutFinite DEF RobbedAreFew, Out, TypeOK

\* A client that removes the marker of another one is itself on its way out.
LEMMA OneForAnother ==
  ASSUME TypeOK, RobbedAreFew, misjudged' = misjudged,
         NEW p \in Out, NEW q, Out' \subseteq (Out \ {p}) \cup {q}
  PROVE  RobbedAreFew'
<1>1. IsFiniteSet(Out \ {p}) /\ Cardinality(Out \ {p}) = Cardinality(Out) - 1
  BY OutFinite, FS_RemoveElement
<1>2. /\ IsFiniteSet((Out \ {p}) \cup {q})
      /\ Cardinality((Out \ {p}) \cup {q}) <= Cardinality(Out)
  <2> DEFINE R == Out \ {p}
  <2>1. IsFiniteSet(R) /\ Cardinality(R) = Cardinality(Out) - 1
    BY <1>1
  <2> HIDE DEF R
  <2>2. /\ IsFiniteSet(R \cup {q})
        /\ Cardinality(R \cup {q}) = Cardinality(R)
           \/ Cardinality(R \cup {q}) = Cardinality(R) + 1
    BY <2>1, FS_AddElement
  <2>. QED
    BY <2>1, <2>2, OutFinite DEF R
<1>3. Cardinality(Out') <= Cardinality((Out \ {p}) \cup {q})
  BY <1>2, FS_Subset
<1>4. Cardinality((Out \ {p}) \cup {q}) \in Nat
  BY <1>2, FS_CardinalityType
<1>. QED
  BY <1>2, <1>3, <1>4, OutFinite DEF RobbedAreFew, Out, TypeOK

\* A removal by a person costs at most one client its marker.
LEMMA OneMisjudged ==
  ASSUME TypeOK, RobbedAreFew, NEW q, Out' \subseteq Out \cup {q},
         misjudged' = misjudged + 1
  PROVE  RobbedAreFew'
<1>1. /\ IsFiniteSet(Out \cup {q})
      /\ Cardinality(Out \cup {q}) <= Cardinality(Out) + 1
  BY AddOne
<1>2. Cardinality(Out') <= Cardinality(Out \cup {q})
  BY <1>1, FS_Subset
<1>3. Cardinality(Out \cup {q}) \in Nat
  BY <1>1, FS_CardinalityType
<1>. QED
  BY <1>1, <1>2, <1>3, OutFinite DEF RobbedAreFew, Out, TypeOK

\* What the invariant says of tickets and markers, without counting.
Marks == /\ NoStrayMarker /\ TicketsUnique /\ LeakedIsNobodys /\ RobbedCanTell

\* Every step preserves that part.
LEMMA MarksStep == TypeOK /\ TypeOK' /\ Marks /\ [Next]_vars => Marks'
<1> SUFFICES ASSUME TypeOK, TypeOK', Marks, [Next]_vars PROVE Marks'
  OBVIOUS
<1> USE DEF Marks, TypeOK, NoStrayMarker, TicketsUnique, LeakedIsNobodys,
            RobbedCanTell, RemoveMarker
<1>1. ASSUME NEW p \in Client, Start(p) PROVE Marks'
  BY <1>1 DEF Start
<1>2. ASSUME NEW p \in Client, Request(p) PROVE Marks'
  BY <1>2 DEF Request
<1>3. ASSUME NEW p \in Client, RefuseLegacy(p) PROVE Marks'
  BY <1>3 DEF RefuseLegacy
<1>4. ASSUME NEW p \in Client, Create(p) PROVE Marks'
  BY <1>4 DEF Create
<1>5. ASSUME NEW p \in Client, WriteOwner(p) PROVE Marks'
  BY <1>5 DEF WriteOwner
<1>6. ASSUME NEW p \in Client, CheckLegacy(p) PROVE Marks'
  BY <1>6 DEF CheckLegacy
<1>7. ASSUME NEW p \in Client, Cleanup(p) \/ Unlink(p) PROVE Marks'
  BY <1>7 DEF Cleanup, Unlink
<1>8. ASSUME NEW p \in Client, Leave(p) PROVE Marks'
  BY <1>8 DEF Leave
<1>9. ASSUME NEW p \in Client, ReadOwner(p) PROVE Marks'
  BY <1>9 DEF ReadOwner
<1>10. ASSUME NEW p \in Client, UnlinkFails(p) \/ Crash(p) PROVE Marks'
  <2>1. leaked' <=> leaked \/ Owns(p)
    BY <1>10, Zenon DEF UnlinkFails, Crash
  <2>2. TicketsUnique' /\ RobbedCanTell'
    BY <1>10 DEF UnlinkFails, Crash
  <2>3. \A q \in Client : Owns(q)' <=> Owns(q) /\ q # p
    BY <1>10 DEF UnlinkFails, Crash
  <2>4. marker' = marker
    BY <1>10 DEF UnlinkFails, Crash
  <2>5. NoStrayMarker' /\ LeakedIsNobodys'
    BY <2>1, <2>3, <2>4
  <2>. QED
    BY <2>2, <2>5
<1>11. ASSUME NEW p \in Client, Cancel(p) \/ DeadlinePasses(p) PROVE Marks'
  BY <1>11 DEF Cancel, DeadlinePasses
<1>12. CASE Retire
  BY <1>12 DEF Retire
<1>13. CASE Misjudge
  <2>1. NoStrayMarker' /\ TicketsUnique' /\ LeakedIsNobodys'
    BY <1>13 DEF Misjudge
  <2>2. ASSUME NEW p \in Client, RemovedFrom(p) PROVE RobbedCanTell'
    BY <1>13, <2>2 DEF Misjudge, RemovedFrom
  <2>3. ASSUME \A p \in Client : ~Owns(p), UNCHANGED people
        PROVE  RobbedCanTell'
    BY <1>13, <2>3 DEF Misjudge
  <2>. QED
    BY <1>13, <2>1, <2>2, <2>3 DEF Misjudge
<1>14. CASE LegacyAppears
  BY <1>14 DEF LegacyAppears
<1>15. CASE UNCHANGED vars
  BY <1>15 DEF vars
<1>. QED
  BY <1>1, <1>2, <1>3, <1>4, <1>5, <1>6, <1>7, <1>8, <1>9, <1>10, <1>11,
     <1>12, <1>13, <1>14, <1>15 DEF Next, Step

\* A release or a failed acquisition that removes a marker: if it is another
\* client's, the one that removes it had lost its own.
LEMMA RemovalStep ==
  ASSUME TypeOK, TypeOK', Marks, RobbedAreFew,
         NEW p \in Client, Cleanup(p) \/ Unlink(p)
  PROVE  RobbedAreFew'
<1> USE DEF Out, TypeOK, RemoveMarker, Cleanup, Unlink
<1>1. \A q \in Client : Robbed(q)' => q # p /\ (Robbed(q) \/ Owns(q))
  OBVIOUS
<1>2. misjudged' = misjudged
  OBVIOUS
<1>3. CASE \A q \in Client \ {p} : ~Owns(q)
  <2>1. Out' \subseteq Out
    BY <1>1, <1>3
  <2>. QED
    BY <1>2, <2>1, NoMoreOut
<1>4. ASSUME NEW q \in Client \ {p}, Owns(q) PROVE RobbedAreFew'
  <2>1. \A r \in Client : Owns(r) => r = q
    BY <1>4 DEF Marks, TicketsUnique
  <2>2. p \in Out
    BY <2>1
  <2>3. Out' \subseteq (Out \ {p}) \cup {q}
    BY <1>1, <2>1
  <2>. QED
    BY <1>2, <2>2, <2>3, OneForAnother
<1>. QED
  BY <1>3, <1>4

\* Every step keeps the clients without a marker as few as the removals.
LEMMA FewStep ==
  TypeOK /\ TypeOK' /\ Marks /\ RobbedAreFew /\ [Next]_vars => RobbedAreFew'
<1> SUFFICES ASSUME TypeOK, TypeOK', Marks, RobbedAreFew, [Next]_vars
             PROVE  RobbedAreFew'
  OBVIOUS
<1> USE DEF TypeOK
<1>1. ASSUME NEW p \in Client, Create(p) PROVE RobbedAreFew'
  <2>1. Out' \subseteq Out
    BY <1>1 DEF Create, Out, Marks, NoStrayMarker, TicketsUnique
  <2>. QED
    BY <1>1, <2>1, NoMoreOut DEF Create
<1>2. ASSUME NEW p \in Client,
             \/ Start(p) \/ Request(p) \/ RefuseLegacy(p) \/ WriteOwner(p)
             \/ CheckLegacy(p) \/ Leave(p) \/ ReadOwner(p) \/ UnlinkFails(p)
             \/ Cancel(p) \/ DeadlinePasses(p) \/ Crash(p)
      PROVE RobbedAreFew'
  <2> USE DEF Start, Request, RefuseLegacy, WriteOwner, CheckLegacy, Leave,
              ReadOwner, UnlinkFails, Cancel, DeadlinePasses, Crash
  <2>1. marker' = marker /\ ticket' = ticket /\ misjudged' = misjudged
    BY <1>2
  <2>2. \A q \in Client : Inside(q)' => Inside(q)
    BY <1>2
  <2>3. Out' \subseteq Out
    BY <2>1, <2>2 DEF Out
  <2>. QED
    BY <2>1, <2>3, NoMoreOut
<1>3. ASSUME NEW p \in Client, Cleanup(p) \/ Unlink(p) PROVE RobbedAreFew'
  BY <1>3, RemovalStep
<1>4. CASE Retire
  <2>1. Out' \subseteq Out
    BY <1>4 DEF Retire, Out
  <2>. QED
    BY <1>4, <2>1, NoMoreOut DEF Retire
<1>5. CASE Misjudge
  <2>1. UNCHANGED <<pc, ticket>>
    BY <1>5 DEF Misjudge
  <2>2. \A q \in Client : Robbed(q)' => Robbed(q) \/ Owns(q)
    BY <2>1
  <2>3. ASSUME NEW p \in Client, RemovedFrom(p) PROVE RobbedAreFew'
    <3>1. \A q \in Client : Owns(q) => q = p
      BY <2>3 DEF RemovedFrom, Marks, TicketsUnique
    <3>2. Out' \subseteq Out \cup {p}
      BY <2>2, <3>1 DEF Out
    <3>. QED
      BY <2>3, <3>2, OneMisjudged DEF RemovedFrom
  <2>4. ASSUME \A p \in Client : ~Owns(p), UNCHANGED people
        PROVE  RobbedAreFew'
    <3>1. Out' \subseteq Out
      BY <2>2, <2>4 DEF Out
    <3>. QED
      BY <2>4, <3>1, NoMoreOut
  <2>. QED
    BY <1>5, <2>3, <2>4 DEF Misjudge
<1>6. CASE LegacyAppears \/ UNCHANGED vars
  <2>1. Out' \subseteq Out /\ misjudged' = misjudged
    BY <1>6 DEF LegacyAppears, vars, Out
  <2>. QED
    BY <2>1, NoMoreOut
<1>. QED
  BY <1>1, <1>2, <1>3, <1>4, <1>5, <1>6 DEF Next, Step

\* Every step preserves the invariant.
LEMMA IInvStep == IInv /\ [Next]_vars => IInv'
<1>1. IInv <=> TypeOK /\ Marks /\ RobbedAreFew
  BY DEF IInv, Marks
<1>2. IInv' <=> TypeOK' /\ Marks' /\ RobbedAreFew'
  BY DEF IInv, Marks
<1>. QED
  BY <1>1, <1>2, TypeStep, MarksStep, FewStep

\* Every reachable state satisfies the inductive invariant.
THEOREM Inductive == Spec => []IInv
  BY IInvInit, IInvStep, PTL DEF Spec

\* At most one client inside owns the marker; the others have lost theirs.
LEMMA InsideBound == IInv => MutualExclusion
<1> SUFFICES ASSUME IInv PROVE MutualExclusion
  OBVIOUS
<1> DEFINE In == {p \in Client : Inside(p)}
<1>1. PICK q : \A p \in Client : Owns(p) => p = q
  BY DEF IInv, TicketsUnique
<1>2. In \subseteq Out \cup {q}
  BY <1>1 DEF Out
<1>3. /\ IsFiniteSet(Out \cup {q})
      /\ Cardinality(Out \cup {q}) <= Cardinality(Out) + 1
      /\ Cardinality(Out \cup {q}) \in Nat
  BY AddOne, FS_CardinalityType
<1>4. Cardinality(In) <= Cardinality(Out \cup {q}) /\ Cardinality(In) \in Nat
  BY <1>2, <1>3, FS_Subset, FS_CardinalityType
<1>5. Cardinality(Out) <= misjudged /\ misjudged \in Nat
  BY DEF IInv, TypeOK, RobbedAreFew, Out
<1>. QED
  BY <1>3, <1>4, <1>5, OutFinite DEF MutualExclusion

\* For every finite set of clients: past the exclusive create of _try_acquire
\* there is at most one client, and one more for each marker that a person
\* removed from under a living client.
THEOREM Exclusion == Spec => []MutualExclusion
  BY InsideBound, Inductive, PTL

\* A marker nobody inside stands for was left by a crash or a failed removal.
THEOREM NoStray == Spec => []NoStrayMarker
<1>1. IInv => NoStrayMarker
  BY DEF IInv
<1>. QED
  BY <1>1, Inductive, PTL

\* A client inside loses its marker only to a person, unless a removal fell
\* into the window the owner check of _release leaves open.
THEOREM Kept == Spec => MarkerKept
<1> DEFINE Keeps == \A q \in Client :
                      Owns(q) /\ Robbed(q)' => window \/ misjudged' > misjudged
<1>1. IInv /\ [Next]_vars => [Keeps]_vars
  <2> SUFFICES ASSUME IInv, [Next]_vars, NEW q \in Client,
                      Owns(q), Robbed(q)', ~window
               PROVE  misjudged' > misjudged
    OBVIOUS
  <2> USE DEF IInv, TypeOK, TicketsUnique, RobbedCanTell, RemoveMarker
  <2>1. ASSUME NEW p \in Client, Cleanup(p) \/ Unlink(p) PROVE FALSE
    BY <2>1 DEF Cleanup, Unlink
  <2>2. ASSUME NEW p \in Client, Create(p) PROVE FALSE
    BY <2>2 DEF Create
  <2>3. ASSUME NEW p \in Client,
               \/ Start(p) \/ Request(p) \/ RefuseLegacy(p) \/ WriteOwner(p)
               \/ CheckLegacy(p) \/ Leave(p) \/ ReadOwner(p) \/ UnlinkFails(p)
               \/ Cancel(p) \/ DeadlinePasses(p) \/ Crash(p)
        PROVE FALSE
    <3>1. marker' = marker /\ ticket' = ticket
      BY <2>3 DEF Start, Request, RefuseLegacy, WriteOwner, CheckLegacy,
           Leave, ReadOwner, UnlinkFails, Cancel, DeadlinePasses, Crash
    <3>. QED
      BY <3>1
  <2>4. CASE Retire
    BY <2>4 DEF Retire
  <2>5. CASE Misjudge
    BY <2>5 DEF Misjudge, RemovedFrom
  <2>6. CASE LegacyAppears \/ UNCHANGED vars
    BY <2>6 DEF LegacyAppears, vars
  <2>. QED
    BY <2>1, <2>2, <2>3, <2>4, <2>5, <2>6 DEF Next, Step
<1>. QED
  BY <1>1, Inductive, PTL DEF Spec, MarkerKept
-----------------------------------------------------------------------------
\* The removals only grow, and not past their bound.
LEMMA MisjudgedGrows ==
  ASSUME TypeOK, [Next]_vars, misjudged' # misjudged
  PROVE  misjudged < MaxMisjudged /\ misjudged' = misjudged + 1
<1>1. ASSUME NEW p \in Client, Step(p) PROVE FALSE
  BY <1>1 DEF Step, RefuseLegacy, Create, WriteOwner, CheckLegacy, Cleanup,
              Leave, ReadOwner, Unlink
<1>2. ASSUME NEW p \in Client,
             \/ Start(p) \/ Request(p) \/ UnlinkFails(p) \/ Cancel(p)
             \/ DeadlinePasses(p) \/ Crash(p)
      PROVE FALSE
  BY <1>2 DEF Start, Request, UnlinkFails, Cancel, DeadlinePasses, Crash
<1>3. CASE Misjudge
  BY <1>3 DEF Misjudge, RemovedFrom
<1>4. CASE Retire \/ LegacyAppears \/ UNCHANGED vars
  BY <1>4 DEF Retire, LegacyAppears, vars
<1>. QED
  BY <1>1, <1>2, <1>3, <1>4 DEF Next

\* Nobody has removed the marker of a living client yet.
Untouched == misjudged = 0

HolderFacts ==
  /\ \A p \in Client : Inside(p) => holder = p
  /\ (\A p \in Client : ~Inside(p))
       => holder = IF marker = Absent THEN Free ELSE Abandoned

\* While no marker was removed from under a living client, whoever is inside
\* owns the marker and is the holder that Mutex sees.
LEMMA HolderValue ==
  IInv /\ Untouched => HolderFacts /\ \A p \in Client : ~Robbed(p)
<1> SUFFICES ASSUME IInv, Untouched
             PROVE  HolderFacts /\ \A p \in Client : ~Robbed(p)
  OBVIOUS
<1>1. Out = {}
  BY OutFinite, FS_EmptySet DEF IInv, RobbedAreFew, Out, Untouched
<1>2. \A p \in Client : ~Robbed(p)
  BY <1>1 DEF Out
<1>3. \A p, q \in Client : Inside(p) /\ Inside(q) => p = q
  BY <1>2 DEF IInv, TicketsUnique
<1>4. ASSUME NEW p \in Client, Inside(p) PROVE holder = p
  <2>1. holder = CHOOSE q \in Client : Inside(q)
    BY <1>4 DEF holder
  <2>. QED
    BY <1>3, <1>4, <2>1
<1>5. (\A p \in Client : ~Inside(p))
        => holder = IF marker = Absent THEN Free ELSE Abandoned
  BY DEF holder
<1>. QED
  BY <1>2, <1>4, <1>5 DEF HolderFacts

\* The clients inside and the presence of the marker determine the holder.
LEMMA HolderUnchanged ==
  ASSUME HolderFacts, HolderFacts', (marker' = Absent) <=> (marker = Absent),
         \A q \in Client : Inside(q)' <=> Inside(q)
  PROVE  holder' = holder
<1>1. CASE \E p \in Client : Inside(p)
  BY <1>1 DEF HolderFacts
<1>2. CASE \A p \in Client : ~Inside(p)
  BY <1>2 DEF HolderFacts
<1>. QED
  BY <1>1, <1>2

\* Every step of the lock until then is one of Mutex, or none.
LEMMA RefinementStep ==
  IInv /\ IInv' /\ [Next]_vars => (Untouched' => [Lock!Next]_holder)
<1> SUFFICES ASSUME IInv, IInv', [Next]_vars, Untouched'
             PROVE  [Lock!Next]_holder
  OBVIOUS
<1>1. Untouched
  BY MisjudgedGrows DEF IInv, TypeOK, Untouched
<1>2. HolderFacts /\ \A p \in Client : ~Robbed(p)
  BY <1>1, HolderValue
<1>3. HolderFacts'
  BY HolderValue, PTL
<1> USE <1>2, <1>3 DEF TypeOK, HolderFacts, RemoveMarker, Lock!Next,
        Lock!Acquire, Lock!Release, Lock!Abandon, Lock!Retire
<1>4. ASSUME NEW p \in Client, Create(p) PROVE [Lock!Next]_holder
  <2>1. CASE marker = Absent
    <3>1. \A q \in Client : ~Inside(q)
      BY <2>1 DEF IInv
    <3>2. holder = Free /\ holder' = p
      BY <1>4, <2>1, <3>1 DEF Create, IInv
    <3>. QED
      BY <3>2
  <2>2. CASE marker # Absent
    <3>1. holder' = holder
      BY <1>4, <2>2, HolderUnchanged DEF Create, IInv
    <3>. QED
      BY <3>1
  <2>. QED
    BY <2>1, <2>2
<1>5. ASSUME NEW p \in Client, Cleanup(p) \/ Unlink(p)
      PROVE [Lock!Next]_holder
  <2>1. holder = p
    BY <1>5 DEF Cleanup, Unlink
  <2>2. \A q \in Client : Inside(q) => q = p
    BY <2>1
  <2>3. holder' = Free
    BY <1>5, <2>2 DEF Cleanup, Unlink, IInv
  <2>. QED
    BY <2>1, <2>3
<1>6. ASSUME NEW p \in Client, UnlinkFails(p) \/ Crash(p) \/ ReadOwner(p)
      PROVE [Lock!Next]_holder
  <2>1. marker' = marker
    BY <1>6 DEF UnlinkFails, Crash, ReadOwner
  <2>2. CASE Inside(p) /\ ~Inside(p)'
    <3>1. holder = p /\ marker # Absent
      BY <2>2 DEF IInv
    <3>2. \A q \in Client : Inside(q) => q = p
      BY <3>1
    <3>3. \A q \in Client : ~Inside(q)'
      BY <1>6, <2>2, <3>2 DEF UnlinkFails, Crash, ReadOwner, IInv
    <3>4. holder' = Abandoned
      BY <2>1, <3>1, <3>3
    <3>. QED
      BY <3>1, <3>4
  <2>3. CASE ~Inside(p) \/ Inside(p)'
    <3>1. \A q \in Client : Inside(q)' <=> Inside(q)
      BY <1>6, <2>3 DEF UnlinkFails, Crash, ReadOwner, IInv
    <3>2. holder' = holder
      BY <2>1, <3>1, HolderUnchanged
    <3>. QED
      BY <3>2
  <2>. QED
    BY <2>2, <2>3
<1>7. CASE Retire
  <2>1. \A q \in Client : ~Inside(q) /\ ~Inside(q)'
    BY <1>7 DEF Retire
  <2>2. holder' = Free /\ holder \in {Free, Abandoned}
    BY <1>7, <2>1 DEF Retire
  <2>. QED
    BY <2>2
<1>8. CASE Misjudge
  <2>1. \A q \in Client : ~RemovedFrom(q)
    <3>1. misjudged' = misjudged
      BY <1>1 DEF Untouched
    <3>. QED
      BY <3>1 DEF RemovedFrom, IInv
  <2>2. \A q \in Client : ~Inside(q) /\ ~Inside(q)'
    BY <1>8, <2>1 DEF Misjudge
  <2>3. holder' = Free /\ holder \in {Free, Abandoned}
    BY <1>8, <2>2 DEF Misjudge
  <2>. QED
    BY <2>3
<1>9. ASSUME NEW p \in Client,
             \/ Start(p) \/ Request(p) \/ RefuseLegacy(p) \/ WriteOwner(p)
             \/ CheckLegacy(p) \/ Leave(p) \/ Cancel(p) \/ DeadlinePasses(p)
      PROVE [Lock!Next]_holder
  <2>1. marker' = marker /\ \A q \in Client : Inside(q)' <=> Inside(q)
    BY <1>9 DEF Start, Request, RefuseLegacy, WriteOwner, CheckLegacy, Leave,
                Cancel, DeadlinePasses, IInv
  <2>2. holder' = holder
    BY <2>1, HolderUnchanged
  <2>. QED
    BY <2>2
<1>10. CASE LegacyAppears \/ UNCHANGED vars
  <2>1. marker' = marker /\ \A q \in Client : Inside(q)' <=> Inside(q)
    BY <1>10 DEF LegacyAppears, vars
  <2>2. holder' = holder
    BY <2>1, HolderUnchanged
  <2>. QED
    BY <2>2
<1>. QED
  BY <1>4, <1>5, <1>6, <1>7, <1>8, <1>9, <1>10 DEF Next, Step

\* Until a person removes the marker of a living client, the marker protocol
\* implements the abstract lock for any finite set of clients, with crashes,
\* failing file operations and abandoned markers.
THEOREM Refinement == Spec => ImplementsMutex
<1>1. Init => Lock!Init
  BY DEF Init, Lock!Init, holder
<1>2. IInv /\ IInv' /\ [Next]_vars
        => [misjudged' = 0 => [Lock!Next]_holder]_vars
  BY RefinementStep DEF Untouched
<1>. QED
  BY <1>1, <1>2, Inductive, PTL DEF Spec, ImplementsMutex

\* Where nobody ever does, it implements Mutex, which Credentials takes for
\* the lock.
THEOREM ImplementsLock == MaxMisjudged = 0 /\ Spec => Lock!Spec
<1>1. Init => Lock!Init
  BY DEF Init, Lock!Init, holder
<1>2. ASSUME MaxMisjudged = 0 PROVE Spec => Lock!Spec
  <2>1. IInv /\ Untouched /\ [Next]_vars => Untouched'
    BY <1>2, MisjudgedGrows DEF IInv, TypeOK, Untouched
  <2>2. Init => Untouched
    BY DEF Init, Untouched
  <2>. QED
    BY <1>1, <2>1, <2>2, RefinementStep, Inductive, PTL DEF Spec, Lock!Spec
<1>. QED
  BY <1>2
=============================================================================
