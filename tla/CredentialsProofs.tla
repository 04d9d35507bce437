------------------------- MODULE CredentialsProofs --------------------------
(***************************************************************************)
(* Proofs about Credentials, for every value of its constants: the         *)
(* strengthened invariant IInv is inductive, so the state is well typed,   *)
(* the refresh token on file stays usable, and no refresh token is sent a  *)
(* second time unless its own exchange was hit by a fault.                 *)
(*                                                                         *)
(* Most steps fall into a few groups, each with one lemma: steps that make *)
(* actors forget (ForgetsStep), that move one actor (MovesStep), that copy *)
(* the file's token into memory (LearnsStep), that save one (SavesStep)    *)
(* and that issue one for a login (ApproveStep).                           *)
(*                                                                         *)
(* The second half proves what the store promises about logins: a logout   *)
(* is final, no write takes a profile back, a consent is saved over the    *)
(* very profile it was asked for, and no client goes back to a token it    *)
(* knows is no good.  Each step is first shown to evolve the file, the     *)
(* logins, the processes and the actors in one of a few ways (Evolves);    *)
(* that those ways preserve StoreInv is then shown once for all steps.     *)
(***************************************************************************)
EXTENDS Credentials, TLAPS

USE CredentialsAssumption

\* The locals of an idle actor are well typed.
LEMMA RestType == Rest \in Locals
<1>1. None \in Gen \cup {None} BY DEF None
<1>2. EmptyFile \in File BY CredentialsAssumption DEF EmptyFile, File
<1>. QED BY <1>1, <1>2, CredentialsAssumption DEF Rest, Locals

\* Saving a profile leaves a well-typed file.
LEMMA SetProfileType ==
  ASSUME NEW cf \in File, NEW q \in Profile, NEW g \in Gen
  PROVE SetProfile(cf, q, g) \in File
<1>1. [cf.tok EXCEPT ![q] = g] \in [Profile -> Gen \cup {None}] BY DEF File
<1>. QED BY <1>1 DEF SetProfile, File

\* An actor that moves with well-typed locals leaves pc and loc well typed.
LEMMA GoToType ==
  ASSUME TypeOK, NEW x \in Actor, NEW l \in PCs, NEW r \in Locals, GoTo(x, l, r)
  PROVE pc' \in [Actor -> PCs] /\ loc' \in [Actor -> Locals]
BY DEF GoTo, TypeOK

\* What the type invariant says of one actor and of the file.
LEMMA ProfileType ==
  ASSUME TypeOK, NEW x \in Actor
  PROVE /\ ProfileOf(x) \in Profile
        /\ loc[x] \in Locals
        /\ file.tok \in [Profile -> Gen \cup {None}]
        /\ file \in File
        /\ loc[x].cf \in File
        /\ x \in Task => TaskProc[x] \in Proc
BY DEF ProfileOf, TypeOK, Locals, File

\* A call that ends leaves control and locks well typed.
LEMMA ReturnType ==
  ASSUME TypeOK, NEW x \in Actor, Return(x)
  PROVE /\ pc' \in [Actor -> PCs] /\ loc' \in [Actor -> Locals]
        /\ alock' \in [Proc -> Task \cup {NoOne}]
<1>1. "idle" \in PCs BY DEF PCs
<1>. QED BY <1>1, RestType, GoToType DEF Return, Unlocked, TypeOK

\* A refresh that ends with a credential leaves memory and control well typed.
LEMMA AdoptType ==
  ASSUME TypeOK, NEW x \in Actor, NEW g \in Gen, Adopt(x, g)
  PROVE /\ pc' \in [Actor -> PCs] /\ loc' \in [Actor -> Locals]
        /\ alock' \in [Proc -> Task \cup {NoOne}]
        /\ mem' \in [Proc -> Gen \cup {None}]
        /\ used' \in [Proc -> Gen \cup {None}]
<1>1. CASE x \in Task
  <2>0. /\ mem' = [mem EXCEPT ![TaskProc[x]] = g]
        /\ used' = [used EXCEPT ![TaskProc[x]] = None]
        /\ alock' = Unlocked(x)
        /\ alock \in [Proc -> Task \cup {NoOne}]
        /\ mem \in [Proc -> Gen \cup {None}] /\ used \in [Proc -> Gen \cup {None}]
    BY <1>1 DEF Adopt, TypeOK
  <2>1. /\ mem' \in [Proc -> Gen \cup {None}]
        /\ used' \in [Proc -> Gen \cup {None}]
        /\ alock' \in [Proc -> Task \cup {NoOne}]
    BY <2>0 DEF Unlocked
  <2>2. /\ [Rest EXCEPT !.tok = g, !.rej = loc[x].rej, !.again = loc[x].again] \in Locals
        /\ [Rest EXCEPT !.op = "skew", !.again = TRUE, !.rej = loc[x].rej] \in Locals
    BY RestType, ProfileType DEF Locals
  <2>3. "sent" \in PCs /\ "await_lock" \in PCs BY DEF PCs
  <2>. QED BY <1>1, <2>1, <2>2, <2>3, GoToType DEF Adopt
<1>2. CASE x \notin Task
  BY <1>2, ReturnType DEF Adopt, TypeOK
<1>. QED BY <1>1, <1>2

\* Saving a refreshed profile preserves the type invariant.
LEMMA SaveRefreshedType ==
  ASSUME TypeOK, NEW x \in Actor, SaveRefreshed(x) PROVE TypeOK'
<1>1. file' \in File BY ProfileType, SetProfileType DEF SaveRefreshed
<1>2. touched' \subseteq Cli BY DEF SaveRefreshed, Touch, TypeOK
<1>3. holder' \in Actor \cup {Free, Abandoned} BY DEF SaveRefreshed, Release, Lock!Release, TypeOK
<1>4. /\ pc' \in [Actor -> PCs] /\ loc' \in [Actor -> Locals]
      /\ alock' \in [Proc -> Task \cup {NoOne}]
      /\ mem' \in [Proc -> Gen \cup {None}]
      /\ used' \in [Proc -> Gen \cup {None}]
  BY AdoptType DEF SaveRefreshed
<1>. QED BY <1>1, <1>2, <1>3, <1>4 DEF SaveRefreshed, TypeOK, server, history

\* Sending a refresh preserves the type invariant.
LEMMA RefreshPostType ==
  ASSUME TypeOK, NEW x \in Actor, RefreshPost(x) PROVE TypeOK'
<1>. DEFINE sel == IF Disk(x) # None THEN Disk(x) ELSE loc[x].fb
<1>1. sel \in Gen \cup {None} BY ProfileType DEF Disk, OnFile, Locals
<1>2. [loc[x] EXCEPT !.sel = sel, !.cf = file, !.ans = None] \in Locals
  BY <1>1, ProfileType DEF Locals
<1>3. "post" \in PCs BY DEF PCs
<1>4. pc' \in [Actor -> PCs] /\ loc' \in [Actor -> Locals]
  BY <1>2, <1>3, GoToType DEF RefreshPost
<1>5. reused' \subseteq Gen  BY <1>1 DEF RefreshPost, TypeOK
<1>. QED BY <1>4, <1>5 DEF RefreshPost, TypeOK, server, history

\* The types of the fields of an actor's locals.
LEMMA LocalsType ==
  ASSUME TypeOK, NEW x \in Actor
  PROVE /\ loc[x].tok \in Gen \cup {None} /\ loc[x].rej \in Gen \cup {None}
        /\ loc[x].fb \in Gen \cup {None} /\ loc[x].ub \in Gen \cup {None}
        /\ loc[x].sel \in Gen \cup {None}
        /\ loc[x].ans \in Gen \cup {None, Refused, ScopeRefused}
        /\ loc[x].q \in Profile /\ loc[x].todo \subseteq Profile
        /\ loc[x].cf \in File
BY DEF TypeOK, Locals

\* Only the actor that moves changes its place and its locals.
LEMMA GoToEffect ==
  ASSUME TypeOK, NEW x \in Actor, NEW l, NEW r, GoTo(x, l, r)
  PROVE /\ pc'[x] = l /\ loc'[x] = r
        /\ \A y \in Actor : y # x => pc'[y] = pc[y] /\ loc'[y] = loc[y]
BY DEF GoTo, TypeOK

\* The actors in dead forget what they were doing, and tokens may disappear
\* from memory and from the file; nothing else changes hands.
Forgets(dead) ==
  /\ \A y \in Actor : IF y \in dead THEN pc'[y] = "idle" /\ loc'[y] = Rest
                      ELSE /\ pc'[y] = pc[y] /\ loc'[y] = loc[y]
                           /\ holder = y => holder' = y
  /\ \A t \in Task \ dead : alock[TaskProc[t]] = t => alock'[TaskProc[t]] = t
  /\ UNCHANGED <<issued, spent, reused>>
  /\ tomb \subseteq tomb' /\ tomb' \subseteq Profile
  /\ faulted \subseteq faulted'
  /\ \A x \in dead : pc[x] = "post" /\ loc[x].ans \in Gen => loc[x].sel \in faulted'
  /\ \A g \in orphans' : \/ g \in orphans
                         \/ g \in faulted' /\ \E x \in dead : pc[x] = "post" /\ loc[x].sel = g
  /\ \/ file' = file
     \/ /\ \A y \in Actor \ dead : pc[y] # "post"
        /\ \A q \in Profile : \/ file'.tok[q] = file.tok[q]
                              \/ file'.tok[q] = None /\ q \in tomb'
  /\ \A p \in Proc : \/ mem'[p] = mem[p] /\ used'[p] = used[p]
                     \/ /\ mem'[p] = None /\ used'[p] = None
                        /\ \A t \in Task : TaskProc[t] = p => pc'[t] = "idle"

\* The fields of idle locals.
LEMMA RestFields == /\ Rest.op = "none" /\ Rest.fb = None /\ Rest.ub = None
                    /\ Rest.sel = None /\ Rest.ans = None /\ Rest.tok = None
BY DEF Rest

\* Tokens are positive numbers; None and the refusals are none of them.
LEMMA Tokens == /\ None \notin Gen /\ None = 0 /\ Refused \notin Gen /\ ScopeRefused \notin Gen
                /\ Refused # None /\ ScopeRefused # None /\ Refused <= 0 /\ ScopeRefused <= 0
                /\ \A g \in Gen : g \in Nat /\ g # 0
                /\ \A n \in Gen \cup {None} : n \in Nat
BY DEF None, Gen, Refused, ScopeRefused

\* A step that only makes actors forget preserves the invariant.
LEMMA ForgetsStep ==
  ASSUME IInv, TypeOK', NEW dead \in SUBSET Actor, Forgets(dead)
  PROVE IInv'
<1>i. TypeOK /\ LockHeld /\ LoadedIsCurrent /\ OneRefresher /\ OpsInPlace
        /\ KnownProfile /\ NotNewer /\ FileDistinct /\ AnswerFresh
        /\ UnsavedMem /\ UnsavedLoc /\ FileRefreshable /\ NoReuse BY DEF IInv
<1>e. \A y \in Actor : IF y \in dead THEN pc'[y] = "idle" /\ loc'[y] = Rest
                      ELSE /\ pc'[y] = pc[y] /\ loc'[y] = loc[y]
                           /\ holder = y => holder' = y
  BY DEF Forgets
<1>u. /\ UNCHANGED <<issued, spent, reused>> /\ tomb \subseteq tomb' /\ tomb' \subseteq Profile /\ faulted \subseteq faulted'
  BY DEF Forgets
<1>f. \A q \in Profile : file'.tok[q] = file.tok[q] \/ (file'.tok[q] = None /\ q \in tomb')
  BY DEF Forgets
<1>m. \A p \in Proc : \/ mem'[p] = mem[p] /\ used'[p] = used[p]
                     \/ /\ mem'[p] = None /\ used'[p] = None
                        /\ \A t \in Task : TaskProc[t] = p => pc'[t] = "idle"
  BY DEF Forgets
<1>c1. LockHeld' BY <1>i, <1>e DEF LockHeld
<1>c2. LoadedIsCurrent' BY <1>i, <1>e DEF LoadedIsCurrent, Forgets
<1>c3. OneRefresher' BY <1>i, <1>e DEF OneRefresher, Forgets, Actor
<1>c4. OpsInPlace' BY <1>i, <1>e, <1>u, RestFields, Tokens DEF OpsInPlace, Refreshes, Actor
<1>c5. KnownProfile'
  <2>1. ASSUME NEW p \in Proc, mem'[p] # None
        PROVE file'.tok[ProcProfile[p]] # None \/ ProcProfile[p] \in tomb'
    <3>1. mem[p] # None BY <1>m, <2>1
    <3>. QED BY <3>1, <1>i, <1>f, <1>u DEF KnownProfile
  <2>2. ASSUME NEW t \in Task, pc'[t] # "idle" PROVE mem'[TaskProc[t]] # None
    BY <2>2, <1>i, <1>e, <1>m DEF KnownProfile, Actor
  <2>3. ASSUME NEW x \in Cli, Refreshes(x)'
        PROVE file'.tok[loc'[x].q] # None \/ loc'[x].q \in tomb'
    <3>1. x \in Actor /\ x \notin dead
      BY <2>3, <1>e, RestFields DEF Refreshes, Actor
    <3>2. loc'[x] = loc[x] /\ Refreshes(x) BY <3>1, <2>3, <1>e DEF Refreshes
    <3>. QED BY <3>1, <3>2, <1>i, <1>f, <1>u, LocalsType DEF KnownProfile
  <2>. QED BY <2>1, <2>2, <2>3 DEF KnownProfile
<1>c6. NotNewer' BY <1>i, <1>e, <1>u, <1>f, <1>m, RestFields, Tokens DEF NotNewer, Actor, TypeOK, Forgets
<1>c7. FileDistinct' BY <1>i, <1>e, <1>f DEF FileDistinct, ProfileOf, Forgets
<1>c8. AnswerFresh' BY <1>i, <1>e, <1>u, <1>f, <1>m, RestFields, Tokens DEF AnswerFresh, Sends, Forgets
<1>c9. UnsavedMem' BY <1>i, <1>e, <1>u, <1>f, <1>m, RestFields, Tokens DEF UnsavedMem, PrivateTo, Sends, Saving, Actor, Forgets
<1>c10. UnsavedLoc' BY <1>i, <1>e, <1>u, <1>f, <1>m, RestFields, Tokens DEF UnsavedLoc, PrivateTo, Sends, Actor
<1>c11. FileRefreshable' BY <1>i, <1>e, <1>u, RestFields, Tokens DEF FileRefreshable, Forgets, LockHeld, TypeOK
<1>c12. NoReuse' BY <1>i, <1>u DEF NoReuse
<1>. QED BY <1>c1, <1>c2, <1>c3, <1>c4, <1>c5, <1>c6, <1>c7, <1>c8, <1>c9, <1>c10, <1>c11, <1>c12 DEF IInv

\* Actor x moves on without leaving or entering the exchange of a token; at
\* most it takes a token from file or memory as its own copy.
Moves(x, l, r) ==
  /\ GoTo(x, l, r)
  /\ UNCHANGED <<file, mem, used, issued, spent, orphans, faulted, reused>>
  /\ l # "post" /\ (pc[x] = "post" => loc[x].ans \notin Gen)
  /\ tomb \subseteq tomb' /\ tomb' \subseteq Profile
  /\ l \in {"locked", "recorded"} => holder' = x
  /\ \A y \in Actor \ {x} : holder = y => holder' = y
  /\ \A t \in Task \ {x} : alock[TaskProc[t]] = t => alock'[TaskProc[t]] = t
  /\ x \in Task /\ l \in {"acquire", "locked"} => alock'[TaskProc[x]] = x
  /\ r.ans \in {None, loc[x].ans}
  /\ \/ r.fb \in {None, loc[x].fb}
     \/ x \in Task /\ r.fb = mem[TaskProc[x]]
     \/ \E q \in Profile : r.fb = file.tok[q]
  \* where the operation can be
  /\ x \in Task => /\ r.op \in {"none", "skew", "force"}
                   /\ l \in {"await_lock", "acquire", "locked"} => r.op # "none"
                   /\ l # "idle" => mem[TaskProc[x]] # None
  /\ x \in Cli => r.ub = None
  /\ r.op \in {"login", "consent"} => r.ans \in Gen
  /\ l = "recorded" => \/ r.op = "logout" /\ r.q \in tomb'
                       \/ r.op = "logout_all" /\ tomb' = Profile
  /\ x \in Cli /\ r.op \in {"skew", "force", "refresh", "token", "scope"} =>
       file.tok[r.q] # None \/ r.q \in tomb
  \* the captured copy of an unsaved credential
  /\ x \in Task /\ l \in {"acquire", "locked"} /\ r.ub # None =>
       \/ pc[x] \in {"acquire", "locked"} /\ r.fb = loc[x].fb /\ r.ub = loc[x].ub
       \/ /\ alock[TaskProc[x]] = NoOne
          /\ r.fb = mem[TaskProc[x]] /\ r.ub = used[TaskProc[x]]

\* A step that only moves one actor preserves the invariant.
LEMMA MovesStep ==
  ASSUME IInv, TypeOK', NEW x \in Actor, NEW l, NEW r, Moves(x, l, r)
  PROVE IInv'
<1>i. TypeOK /\ LockHeld /\ LoadedIsCurrent /\ OneRefresher /\ OpsInPlace
        /\ KnownProfile /\ NotNewer /\ FileDistinct /\ AnswerFresh
        /\ UnsavedMem /\ UnsavedLoc /\ FileRefreshable /\ NoReuse BY DEF IInv
<1>e. /\ pc'[x] = l /\ loc'[x] = r
      /\ \A y \in Actor : y # x => pc'[y] = pc[y] /\ loc'[y] = loc[y]
  BY <1>i, GoToEffect DEF Moves
<1>u. /\ UNCHANGED <<file, mem, used, issued, spent, orphans, faulted, reused>>
      /\ tomb \subseteq tomb' /\ tomb' \subseteq Profile
      /\ l # "post" /\ (pc[x] = "post" => loc[x].ans \notin Gen)
  BY DEF Moves
<1>t. r.ans = None \/ r.ans = loc[x].ans
  BY DEF Moves
<1>b. \/ r.fb = None
      \/ r.fb = loc[x].fb
      \/ x \in Task /\ r.fb = mem[TaskProc[x]]
      \/ \E q \in Profile : r.fb = file.tok[q]
  BY DEF Moves
<1>y. x \in Task => TaskProc[x] \in Proc OBVIOUS
<1>c1. LockHeld' BY <1>i, <1>e, <1>u DEF LockHeld, Moves
<1>c2. LoadedIsCurrent' BY <1>i, <1>e, <1>u DEF LoadedIsCurrent
<1>c3. OneRefresher' BY <1>i, <1>e, <1>u DEF OneRefresher, Moves, Actor
<1>c4. OpsInPlace'
  <2>1. /\ x \in Task => /\ r.op \in {"none", "skew", "force"}
                         /\ l \in {"await_lock", "acquire", "locked"} => r.op # "none"
        /\ x \in Cli => r.ub = None
        /\ r.op \in {"login", "consent"} => r.ans \in Gen
        /\ l = "recorded" => \/ r.op = "logout" /\ r.q \in tomb'
                             \/ r.op = "logout_all" /\ tomb' = Profile
    BY DEF Moves
  <2>2. ASSUME NEW t \in Task
        PROVE /\ loc'[t].op \in {"none", "skew", "force"}
              /\ pc'[t] \in {"await_lock", "acquire", "locked", "post"} => Refreshes(t)'
    <3>1. t \in Actor BY DEF Actor
    <3>2. CASE t = x
      <4>1. loc'[t] = r /\ pc'[t] = l /\ l # "post" BY <3>2, <1>e, <1>u
      <4>2. r.op \in {"none", "skew", "force"} BY <3>2, <2>1
      <4>3. l \in {"await_lock", "acquire", "locked"} => r.op # "none" BY <3>2, <2>1
      <4>. QED BY <4>1, <4>2, <4>3 DEF Refreshes
    <3>3. CASE t # x BY <3>1, <3>3, <1>e, <1>i DEF OpsInPlace, Refreshes
    <3>. QED BY <3>2, <3>3
  <2>3. \A y \in Cli : loc'[y].ub = None
    BY <2>1, <1>i, <1>e DEF OpsInPlace, Actor
  <2>4. ASSUME NEW y \in Actor
        PROVE /\ loc'[y].op \in {"login", "consent"} => loc'[y].ans \in Gen
              /\ pc'[y] = "post" => Refreshes(y)' /\ loc'[y].sel \in Gen
              /\ pc'[y] = "recorded" =>
                    \/ loc'[y].op = "logout" /\ loc'[y].q \in tomb'
                    \/ loc'[y].op = "logout_all" /\ tomb' = Profile
    BY <2>1, <1>i, <1>e, <1>u DEF OpsInPlace, Refreshes
  <2>. QED BY <2>2, <2>3, <2>4 DEF OpsInPlace
<1>c5. KnownProfile' BY <1>i, <1>e, <1>u, LocalsType DEF KnownProfile, Refreshes, Actor, Moves
<1>c6. NotNewer' BY <1>i, <1>e, <1>u, <1>t, <1>b, <1>y, Tokens DEF NotNewer, Actor, TypeOK
<1>c7. FileDistinct' BY <1>i, <1>e, <1>u DEF FileDistinct, ProfileOf
<1>c8. AnswerFresh' BY <1>i, <1>e, <1>u, <1>t, <1>b, <1>y, Tokens DEF AnswerFresh, Sends
<1>c9. UnsavedMem' BY <1>i, <1>e, <1>u, <1>t, <1>b, <1>y, Tokens DEF UnsavedMem, PrivateTo, Sends, Saving, Actor
<1>c10. UnsavedLoc'
  <2>1. ASSUME NEW t \in Task, pc'[t] \in {"acquire", "locked"}, loc'[t].ub # None
        PROVE /\ PrivateTo(TaskProc[t], loc'[t].fb)
              /\ loc'[t].fb \notin spent \ faulted
    <3>1. CASE /\ pc[t] \in {"acquire", "locked"}
               /\ loc'[t].fb = loc[t].fb /\ loc[t].ub # None
      BY <3>1, <1>i DEF UnsavedLoc
    <3>2. CASE /\ t = x /\ alock[TaskProc[x]] = NoOne /\ used[TaskProc[x]] # None
               /\ r.fb = mem[TaskProc[x]]
      <4>1. ~Saving(TaskProc[x], mem[TaskProc[x]])
        BY <3>2, <1>i DEF OneRefresher, Saving
      <4>. QED BY <3>2, <4>1, <1>y, <1>i, <1>e DEF UnsavedMem
    <3>. QED BY <2>1, <1>e, <3>1, <3>2 DEF Moves, Actor
  <2>2. ASSUME NEW p \in Proc, NEW g, PrivateTo(p, g) PROVE PrivateTo(p, g)'
    BY <2>2, <1>i, <1>e, <1>u, <1>t, <1>b, <1>y, Tokens DEF PrivateTo, Sends
  <2>. QED BY <2>1, <2>2, <1>u DEF UnsavedLoc
<1>c11. FileRefreshable' BY <1>i, <1>e, <1>u, Tokens DEF FileRefreshable, LockHeld, TypeOK, Moves
<1>c12. NoReuse' BY <1>i, <1>u DEF NoReuse
<1>. QED BY <1>c1, <1>c2, <1>c3, <1>c4, <1>c5, <1>c6, <1>c7, <1>c8, <1>c9, <1>c10, <1>c11, <1>c12 DEF IInv

\* A call that ends resets its actor and keeps the locks of the others.
LEMMA ReturnEffect ==
  ASSUME TypeOK, NEW x \in Actor, Return(x)
  PROVE /\ \A y \in Actor : IF y = x THEN pc'[y] = "idle" /\ loc'[y] = Rest
                            ELSE pc'[y] = pc[y] /\ loc'[y] = loc[y]
        /\ \A t \in Task : t # x /\ alock[TaskProc[t]] = t => alock'[TaskProc[t]] = t
BY GoToEffect DEF Return, Unlocked, TypeOK

\* Releasing the lock takes it from nobody else.
LEMMA ReleaseEffect ==
  ASSUME TypeOK, NEW x \in Actor, Release(x)
  PROVE /\ holder' \in Actor \cup {Free, Abandoned}
        /\ \A y \in Actor : y # x /\ holder = y => holder' = y
BY DEF Release, Lock!Release, TypeOK

\* A waiter that gives up preserves the invariant.
LEMMA GiveUpStep ==
  ASSUME IInv, NEW x \in Actor, GiveUp(x) PROVE IInv'
<1>1. TypeOK BY DEF IInv
<1>2. TypeOK' BY <1>1, ReturnType DEF GiveUp, TypeOK, server
<1>3. Forgets({x})
  BY <1>1, ReturnEffect DEF GiveUp, Forgets, server, TypeOK
<1>. QED BY <1>2, <1>3, ForgetsStep

\* A refresh refused because of a logout preserves the invariant.
LEMMA RefreshLoggedOutStep ==
  ASSUME IInv, NEW x \in Actor, RefreshLoggedOut(x) PROVE IInv'
<1>1. TypeOK BY DEF IInv
<1>2. TypeOK' BY <1>1, ReturnType, ReleaseEffect DEF RefreshLoggedOut, TypeOK, server, history
<1>3. Forgets({x})
  BY <1>1, ReturnEffect, ReleaseEffect DEF RefreshLoggedOut, Forgets, server, history, TypeOK
<1>. QED BY <1>2, <1>3, ForgetsStep

\* A refresh the server refused preserves the invariant.
LEMMA RefreshRefusedStep ==
  ASSUME IInv, NEW x \in Actor, RefreshRefused(x) PROVE IInv'
<1>1. TypeOK BY DEF IInv
<1>2. TypeOK' BY <1>1, ReturnType, ReleaseEffect DEF RefreshRefused, TypeOK, server, history
<1>3. Forgets({x})
  BY <1>1, ReturnEffect, ReleaseEffect, Tokens DEF RefreshRefused, Forgets, server, history, TypeOK
<1>. QED BY <1>2, <1>3, ForgetsStep

\* A refresh whose answer is lost preserves the invariant.
LEMMA RefreshLostStep ==
  ASSUME IInv, NEW x \in Actor, RefreshLost(x) PROVE IInv'
<1>1. TypeOK BY DEF IInv
<1>2. loc[x].sel \in Gen BY DEF IInv, OpsInPlace, RefreshLost
<1>3. TypeOK' BY <1>1, <1>2, ReturnType, ReleaseEffect DEF RefreshLost, TypeOK
<1>4. Forgets({x})
  BY <1>1, ReturnEffect, ReleaseEffect DEF RefreshLost, Forgets, TypeOK
<1>. QED BY <1>3, <1>4, ForgetsStep

\* Selecting the default profile preserves the invariant.
LEMMA SetDefaultStep ==
  ASSUME IInv, NEW x \in Actor, SetDefault(x) PROVE IInv'
<1>1. TypeOK BY DEF IInv
<1>2. file' \in File /\ \A q \in Profile : file'.tok[q] = file.tok[q]
  BY <1>1, LocalsType DEF SetDefault, TypeOK, File
<1>3. TypeOK' BY <1>1, <1>2, ReturnType, ReleaseEffect DEF SetDefault, TypeOK, server, history
<1>4. \A y \in Actor \ {x} : pc[y] # "post" BY DEF SetDefault, IInv, LockHeld
<1>5. Forgets({x})
  BY <1>1, <1>2, <1>4, ReturnEffect, ReleaseEffect DEF SetDefault, Forgets, server, history, TypeOK
<1>. QED BY <1>3, <1>5, ForgetsStep

\* Deleting a profile leaves a well-typed file without its token.
LEMMA DeleteProfileType ==
  ASSUME NEW cf \in File, NEW q \in Profile, NEW new \in DeleteProfile(cf, q)
  PROVE /\ new \in File
        /\ \A r \in Profile : new.tok[r] = IF r = q THEN None ELSE cf.tok[r]
<1>1. [cf.tok EXCEPT ![q] = None] \in [Profile -> Gen \cup {None}] BY DEF File
<1>2. PICK d \in Profile : new = [tok |-> [cf.tok EXCEPT ![q] = None], default |-> d]
  BY DEF DeleteProfile, File
<1>. QED BY <1>1, <1>2 DEF File

\* The empty file is well typed and holds no token.
LEMMA EmptyFileType == EmptyFile \in File /\ \A q \in Profile : EmptyFile.tok[q] = None
BY DEF EmptyFile, File

\* Removing logged-out profiles preserves the invariant: they are recorded.
LEMMA RemoveProfileStep ==
  ASSUME IInv, NEW x \in Cli, RemoveProfile(x) PROVE IInv'
<1>1. TypeOK /\ x \in Actor BY DEF IInv, Actor
<1>2. /\ file' \in File
      /\ \A q \in Profile : \/ file'.tok[q] = file.tok[q]
                            \/ file'.tok[q] = None /\ q \in tomb
  <2>1. pc[x] = "recorded" BY DEF RemoveProfile
  <2>2. CASE loc[x].op = "logout"
    <3>1. loc[x].q \in tomb BY <1>1, <2>1, <2>2 DEF IInv, OpsInPlace
    <3>2. file' = file \/ file' \in DeleteProfile(file, loc[x].q)
      BY <2>2 DEF RemoveProfile
    <3>3. file \in File /\ loc[x].q \in Profile BY <1>1, ProfileType, LocalsType
    <3>. QED BY <3>1, <3>2, <3>3, DeleteProfileType
  <2>3. CASE loc[x].op # "logout"
    <3>1. tomb = Profile BY <1>1, <2>1, <2>3 DEF IInv, OpsInPlace
    <3>2. file' = EmptyFile \/ file' = file
      BY <1>1, <2>1, <2>3 DEF RemoveProfile, IInv, OpsInPlace
    <3>. QED BY <1>1, <3>1, <3>2, EmptyFileType, ProfileType
  <2>. QED BY <2>2, <2>3
<1>3. ended' \subseteq Gen \cup {None} /\ touched' \subseteq Cli
  <2>1. ended \subseteq Gen \cup {None} /\ touched \subseteq Cli BY <1>1 DEF TypeOK
  <2>2. root \in [Gen -> Gen \cup {None}] BY <1>1 DEF TypeOK
  <2>3. \A r \in Profile : file.tok[r] # None => file.tok[r] \in Gen
    BY <1>1, ProfileType
  <2>4. loc[x].q \in Profile BY <1>1, LocalsType
  <2>. QED BY <2>1, <2>2, <2>3, <2>4 DEF RemoveProfile
<1>4. TypeOK' BY <1>1, <1>2, <1>3, ReturnType, ReleaseEffect DEF RemoveProfile, TypeOK, server
<1>5. \A y \in Actor \ {x} : pc[y] # "post" BY <1>1 DEF RemoveProfile, IInv, LockHeld
<1>6. Forgets({x})
  BY <1>1, <1>2, <1>5, ReturnEffect, ReleaseEffect DEF RemoveProfile, Forgets, server, TypeOK
<1>. QED BY <1>1, <1>4, <1>6, ForgetsStep

\* A login or consent that is not saved preserves the invariant.
LEMMA UpdateProfileFails ==
  ASSUME IInv, NEW x \in Cli, UpdateProfile(x), UNCHANGED <<file, touched>> PROVE IInv'
<1>1. TypeOK /\ x \in Actor BY DEF IInv, Actor
<1>2. TypeOK' BY <1>1, ReturnType, ReleaseEffect DEF UpdateProfile, TypeOK, server
<1>3. Forgets({x})
  BY <1>1, ReturnEffect, ReleaseEffect DEF UpdateProfile, Forgets, server, TypeOK
<1>. QED BY <1>1, <1>2, <1>3, ForgetsStep

\* A logout that cannot be recorded preserves the invariant.
LEMMA RecordLogoutFails ==
  ASSUME IInv, NEW x \in Cli, RecordLogout(x), Release(x), Return(x), UNCHANGED tomb PROVE IInv'
<1>1. TypeOK /\ x \in Actor BY DEF IInv, Actor
<1>2. TypeOK' BY <1>1, ReturnType, ReleaseEffect DEF RecordLogout, TypeOK, server, history
<1>3. Forgets({x})
  BY <1>1, ReturnEffect, ReleaseEffect DEF RecordLogout, Forgets, server, history, TypeOK
<1>. QED BY <1>1, <1>2, <1>3, ForgetsStep

\* A consent that is denied preserves the invariant.
LEMMA ConsentDenied ==
  ASSUME IInv, NEW x \in Cli, Consent(x), Return(x), UNCHANGED <<issued, live, root>> PROVE IInv'
<1>1. TypeOK /\ x \in Actor BY DEF IInv, Actor
<1>2. TypeOK' BY <1>1, ReturnType DEF Consent, TypeOK, history
<1>3. Forgets({x})
  BY <1>1, ReturnEffect DEF Consent, Forgets, history, TypeOK
<1>. QED BY <1>1, <1>2, <1>3, ForgetsStep

\* A process that ends preserves the invariant.
LEMMA ExitProcStep ==
  ASSUME IInv, NEW p \in Proc, ExitProc(p) PROVE IInv'
<1>1. TypeOK BY DEF IInv
<1>2. TypeOK' BY <1>1 DEF ExitProc, TypeOK, server, history
<1>3. Forgets({})
  BY <1>1 DEF ExitProc, Forgets, server, history, TypeOK
<1>. QED BY <1>2, <1>3, ForgetsStep

\* What the death of some actors changes.
LEMMA DieEffect ==
  ASSUME TypeOK, OpsInPlace, NEW dead \in SUBSET Actor, Die(dead)
  PROVE /\ \A y \in Actor : IF y \in dead THEN pc'[y] = "idle" /\ loc'[y] = Rest
                            ELSE /\ pc'[y] = pc[y] /\ loc'[y] = loc[y]
                                 /\ holder = y => holder' = y
        /\ pc' \in [Actor -> PCs] /\ loc' \in [Actor -> Locals]
        /\ holder' \in Actor \cup {Free, Abandoned}
        /\ faulted' \subseteq Gen /\ faulted \subseteq faulted'
        /\ orphans' \subseteq Gen
        /\ \A x \in dead : pc[x] = "post" /\ loc[x].ans \in Gen => loc[x].sel \in faulted'
        /\ \A g \in orphans' : \/ g \in orphans
                               \/ /\ g \in faulted'
                                  /\ \E x \in dead : pc[x] = "post" /\ loc[x].sel = g
<1>1. \A x \in dead : pc[x] = "post" => loc[x].sel \in Gen BY DEF OpsInPlace
<1>2. "idle" \in PCs BY DEF PCs
<1>3. /\ faulted' \subseteq Gen /\ faulted \subseteq faulted'
      /\ orphans' \subseteq Gen
      /\ \A x \in dead : pc[x] = "post" => loc[x].sel \in faulted'
  BY <1>1 DEF Die, TypeOK
<1>4. \A g \in orphans' : \/ g \in orphans
                          \/ /\ g \in faulted'
                             /\ \E x \in dead : pc[x] = "post" /\ loc[x].sel = g
  BY <1>3 DEF Die
<1>5. /\ \A y \in Actor : IF y \in dead THEN pc'[y] = "idle" /\ loc'[y] = Rest
                            ELSE pc'[y] = pc[y] /\ loc'[y] = loc[y]
      /\ pc' \in [Actor -> PCs] /\ loc' \in [Actor -> Locals]
  BY <1>2, RestType DEF Die, TypeOK
<1>6. /\ \A y \in Actor \ dead : holder = y => holder' = y
      /\ holder' \in Actor \cup {Free, Abandoned}
  BY DEF Die, Lock!Abandon, TypeOK
<1>. QED BY <1>3, <1>4, <1>5, <1>6

\* A process that dies preserves the invariant.
LEMMA CrashProcStep ==
  ASSUME IInv, NEW p \in Proc, CrashProc(p) PROVE IInv'
<1>. DEFINE dead == {t \in Task : TaskProc[t] = p}
<1>1. TypeOK /\ OpsInPlace /\ dead \in SUBSET Actor BY DEF IInv, Actor
<1>2. Die(dead) BY DEF CrashProc
<1>3. /\ mem' = [mem EXCEPT ![p] = None] /\ used' = [used EXCEPT ![p] = None]
      /\ alock' = [alock EXCEPT ![p] = NoOne]
      /\ UNCHANGED <<file, tomb, issued, live, void, stale, root, spent, reused, ended, touched>>
  BY DEF CrashProc, Die
<1>4. TypeOK' BY <1>1, <1>2, <1>3, DieEffect DEF TypeOK
<1>5. \A t \in Task : TaskProc[t] = p => pc'[t] = "idle"
  BY <1>1, <1>2, DieEffect
<1>6. \A q \in Proc : \/ mem'[q] = mem[q] /\ used'[q] = used[q]
                      \/ q = p /\ mem'[q] = None /\ used'[q] = None
  BY <1>1, <1>3 DEF TypeOK
<1>7. \A t \in Task \ dead : alock[TaskProc[t]] = t => alock'[TaskProc[t]] = t
  BY <1>1, <1>3 DEF TypeOK
<1>. HIDE DEF dead
<1>8. Forgets(dead)
  BY <1>1, <1>2, <1>3, <1>5, <1>6, <1>7, DieEffect DEF Forgets, TypeOK
<1>. QED BY <1>1, <1>4, <1>8, ForgetsStep

\* A command that dies preserves the invariant.
LEMMA CrashCliStep ==
  ASSUME IInv, NEW x \in Cli, CrashCli(x) PROVE IInv'
<1>1. TypeOK /\ OpsInPlace /\ {x} \in SUBSET Actor BY DEF IInv, Actor
<1>2. Die({x}) BY DEF CrashCli
<1>3. UNCHANGED <<mem, used, alock, file, tomb, issued, live, void, stale, root, spent, reused, ended, touched>>
  BY DEF CrashCli, Die
<1>4. TypeOK' BY <1>1, <1>2, <1>3, DieEffect DEF TypeOK
<1>5. Forgets({x})
  BY <1>1, <1>2, <1>3, DieEffect DEF Forgets, TypeOK
<1>. QED BY <1>1, <1>4, <1>5, ForgetsStep

\* The places an actor can be at.
LEMMA PCsAll == /\ "idle" \in PCs /\ "await_lock" \in PCs /\ "acquire" \in PCs
                /\ "locked" \in PCs /\ "sent" \in PCs /\ "revoke" \in PCs
                /\ "recorded" \in PCs /\ "consent" \in PCs
BY DEF PCs

\* A new request preserves the invariant.
LEMMA BeginRequestStep ==
  ASSUME IInv, NEW t \in Task, BeginRequest(t) PROVE IInv'
<1>. DEFINE r == [Rest EXCEPT !.op = "skew"]
<1>1. TypeOK /\ t \in Actor BY DEF IInv, Actor
<1>2. r \in Locals /\ r.op = "skew" /\ r.fb = None /\ r.ub = None /\ r.ans = None
  BY RestType, RestFields DEF Locals
<1>3. /\ pc[t] = "idle" /\ mem[TaskProc[t]] # None /\ GoTo(t, "await_lock", r)
      /\ UNCHANGED <<file, tomb, holder, mem, used, alock, server, history>>
  BY DEF BeginRequest
<1>. HIDE DEF r
<1>4. TypeOK' BY <1>1, <1>2, <1>3, PCsAll, GoToType DEF TypeOK, server, history
<1>5. Moves(t, "await_lock", r)
  BY <1>1, <1>2, <1>3 DEF Moves, server, history, TypeOK
<1>. QED BY <1>1, <1>4, <1>5, MovesStep

\* Taking the in-process lock preserves the invariant: what the task captures
\* of an unsaved credential is known to its process alone.
LEMMA TakeLockStep ==
  ASSUME IInv, NEW t \in Task, TakeLock(t) PROVE IInv'
<1>. DEFINE p == TaskProc[t]
            r == [loc[t] EXCEPT !.op = "none", !.tok = mem[p]]
            s == [loc[t] EXCEPT !.fb = mem[p], !.ub = used[p]]
<1>1. TypeOK /\ t \in Actor /\ p \in Proc BY DEF IInv, Actor
<1>2. /\ r \in Locals /\ r.op = "none" /\ r.fb = loc[t].fb /\ r.ans = loc[t].ans
      /\ s \in Locals /\ s.op = loc[t].op /\ s.fb = mem[p] /\ s.ub = used[p]
      /\ s.ans = loc[t].ans
  <2>1. loc[t] \in Locals /\ mem[p] \in Gen \cup {None} /\ used[p] \in Gen \cup {None}
    BY <1>1 DEF TypeOK
  <2>. QED BY <2>1 DEF Locals
<1>3. /\ pc[t] = "await_lock" /\ alock[p] = NoOne
      /\ UNCHANGED <<file, tomb, holder, mem, used, server, history>>
      /\ \/ GoTo(t, "sent", r) /\ UNCHANGED alock
         \/ GoTo(t, "acquire", s) /\ alock' = [alock EXCEPT ![p] = t]
  BY DEF TakeLock
<1>. HIDE DEF r, s
<1>a. \A y \in Task \ {t} : alock[TaskProc[y]] = y => alock'[TaskProc[y]] = y
  BY <1>1, <1>3 DEF TypeOK
<1>4. TypeOK' BY <1>1, <1>2, <1>3, PCsAll, GoToType DEF TypeOK, server, history
<1>5. mem[p] # None /\ loc[t].op \in {"none", "skew", "force"} /\ loc[t].op # "none" /\ t \notin Cli
  BY <1>1, <1>3, CredentialsAssumption DEF IInv, KnownProfile, OpsInPlace, Refreshes
<1>6. CASE GoTo(t, "sent", r)
  <2>1. Moves(t, "sent", r)
    BY <1>1, <1>2, <1>3, <1>5, <1>6, <1>a DEF Moves, server, history, TypeOK
  <2>. QED BY <1>1, <1>4, <2>1, MovesStep
<1>7. CASE GoTo(t, "acquire", s) /\ alock' = [alock EXCEPT ![p] = t]
  <2>1. Moves(t, "acquire", s)
    BY <1>1, <1>2, <1>3, <1>5, <1>7, <1>a DEF Moves, server, history, TypeOK
  <2>. QED BY <1>1, <1>4, <2>1, MovesStep
<1>. QED BY <1>3, <1>6, <1>7

\* A request that is accepted preserves the invariant.
LEMMA AcceptedStep ==
  ASSUME IInv, NEW t \in Task, Accepted(t) PROVE IInv'
<1>1. TypeOK /\ t \in Actor BY DEF IInv, Actor
<1>2. TypeOK' BY <1>1, RestType, PCsAll, GoToType DEF Accepted, TypeOK, server, history
<1>3. Moves(t, "idle", Rest)
  BY <1>1, RestFields DEF Accepted, Moves, server, history, TypeOK
<1>. QED BY <1>1, <1>2, <1>3, MovesStep

\* A request that is refused preserves the invariant.
LEMMA UnauthorizedStep ==
  ASSUME IInv, NEW t \in Task, Unauthorized(t) PROVE IInv'
<1>. DEFINE r == [Rest EXCEPT !.op = "force", !.rej = mem[TaskProc[t]]]
<1>1. TypeOK /\ t \in Actor /\ TaskProc[t] \in Proc BY DEF IInv, Actor
<1>2. r \in Locals /\ r.op = "force" /\ r.fb = None /\ r.ub = None /\ r.ans = None
  BY <1>1, RestType, RestFields DEF TypeOK, Locals
<1>3. /\ pc[t] = "sent"
      /\ GoTo(t, "idle", Rest) \/ GoTo(t, "await_lock", r)
      /\ UNCHANGED <<file, tomb, holder, mem, used, alock, server, history>>
  BY DEF Unauthorized
<1>. HIDE DEF r
<1>4. TypeOK' BY <1>1, <1>2, <1>3, RestType, PCsAll, GoToType DEF TypeOK, server, history
<1>5. mem[TaskProc[t]] # None
  BY <1>1, <1>3 DEF IInv, KnownProfile
<1>6. CASE GoTo(t, "idle", Rest)
  <2>1. Moves(t, "idle", Rest)
    BY <1>1, <1>3, <1>6, RestFields DEF Moves, server, history, TypeOK
  <2>. QED BY <1>1, <1>4, <2>1, MovesStep
<1>7. CASE GoTo(t, "await_lock", r)
  <2>1. Moves(t, "await_lock", r)
    BY <1>1, <1>2, <1>3, <1>5, <1>7 DEF Moves, server, history, TypeOK
  <2>. QED BY <1>1, <1>4, <2>1, MovesStep
<1>. QED BY <1>3, <1>6, <1>7

\* Taking the file lock preserves the invariant.
LEMMA AcquireStep ==
  ASSUME IInv, NEW x \in Actor, Acquire(x) PROVE IInv'
<1>1. TypeOK BY DEF IInv
<1>2. /\ pc[x] = "acquire" /\ holder = Free /\ holder' = x
      /\ GoTo(x, "locked", loc[x])
      /\ UNCHANGED <<file, tomb, mem, used, alock, server, history>>
  BY <1>1 DEF Acquire, Lock!Acquire, GoTo, TypeOK
<1>3. loc[x] \in Locals BY <1>1 DEF TypeOK
<1>4. TypeOK' BY <1>1, <1>2, <1>3, PCsAll, GoToType DEF TypeOK, server, history
<1>5. /\ x \in Task => /\ loc[x].op \in {"none", "skew", "force"} /\ loc[x].op # "none"
                       /\ mem[TaskProc[x]] # None /\ alock[TaskProc[x]] = x
      /\ x \in Cli => loc[x].ub = None
      /\ loc[x].op \in {"login", "consent"} => loc[x].ans \in Gen
  BY <1>2 DEF IInv, OpsInPlace, KnownProfile, OneRefresher, Refreshes
<1>6. x \in Cli /\ loc[x].op \in {"skew", "force", "refresh", "token", "scope"} =>
       file.tok[loc[x].q] # None \/ loc[x].q \in tomb
  BY DEF IInv, KnownProfile, Refreshes
<1>7. Moves(x, "locked", loc[x])
  BY <1>1, <1>2, <1>5, <1>6 DEF Moves, server, history, TypeOK
<1>. QED BY <1>1, <1>4, <1>7, MovesStep

\* A refused scope preserves the invariant.
LEMMA ConsentRequiredStep ==
  ASSUME IInv, NEW x \in Cli, ConsentRequired(x) PROVE IInv'
<1>. DEFINE r == [loc[x] EXCEPT !.ans = None, !.sel = loc[x].cf.tok[loc[x].q]]
<1>1. TypeOK /\ x \in Actor /\ x \notin Task BY DEF IInv, Actor
<1>2. /\ r \in Locals /\ r.op = loc[x].op /\ r.fb = loc[x].fb /\ r.ub = loc[x].ub
      /\ r.ans = None /\ r.q = loc[x].q
  <2>1. loc[x] \in Locals /\ loc[x].cf.tok[loc[x].q] \in Gen \cup {None}
    BY <1>1, ProfileType, LocalsType DEF File
  <2>. QED BY <2>1 DEF Locals
<1>3. /\ pc[x] = "post" /\ loc[x].ans = ScopeRefused
      /\ GoTo(x, "consent", r) /\ Release(x) /\ touched' = touched \ {x}
      /\ UNCHANGED <<file, tomb, mem, used, alock, server, spent, reused, faulted, ended>>
  BY DEF ConsentRequired
<1>. HIDE DEF r
<1>4. TypeOK' BY <1>1, <1>2, <1>3, PCsAll, GoToType, ReleaseEffect DEF TypeOK, server
<1>5. loc[x].ub = None /\ Refreshes(x) BY <1>1, <1>3 DEF IInv, OpsInPlace
<1>6. file.tok[loc[x].q] # None \/ loc[x].q \in tomb BY <1>5 DEF IInv, KnownProfile
<1>7. Moves(x, "consent", r)
  BY <1>1, <1>2, <1>3, <1>5, <1>6, ReleaseEffect, Tokens DEF Moves, server, TypeOK, Refreshes
<1>. QED BY <1>1, <1>4, <1>7, MovesStep

\* Starting a logout preserves the invariant.
LEMMA LogoutStep ==
  ASSUME IInv, NEW x \in Cli, NEW q \in Profile, Logout(x, q) PROVE IInv'
<1>. DEFINE r == [Rest EXCEPT !.op = "logout", !.q = q, !.cf = file, !.todo = {q}]
<1>1. TypeOK /\ x \in Actor /\ x \notin Task /\ file \in File BY DEF IInv, Actor, TypeOK
<1>2. r \in Locals /\ r.op = "logout" /\ r.fb = None /\ r.ub = None /\ r.ans = None
  BY <1>1, RestType, RestFields DEF Locals, AllCommands
<1>3. /\ pc[x] = "idle" /\ GoTo(x, "revoke", r)
      /\ UNCHANGED <<file, tomb, holder, mem, used, alock, server, history>>
  BY DEF Logout
<1>. HIDE DEF r
<1>4. TypeOK' BY <1>1, <1>2, <1>3, PCsAll, GoToType DEF TypeOK, server, history
<1>5. Moves(x, "revoke", r)
  BY <1>1, <1>2, <1>3 DEF Moves, server, history, TypeOK
<1>. QED BY <1>1, <1>4, <1>5, MovesStep

\* Starting a logout of all profiles preserves the invariant.
LEMMA LogoutAllStep ==
  ASSUME IInv, NEW x \in Cli, LogoutAll(x) PROVE IInv'
<1>. DEFINE all == {q \in Profile : file.tok[q] # None}
            r == [Rest EXCEPT !.op = "logout_all", !.cf = file, !.todo = all]
<1>1. TypeOK /\ x \in Actor /\ x \notin Task /\ file \in File BY DEF IInv, Actor, TypeOK
<1>2. r \in Locals /\ r.op = "logout_all" /\ r.fb = None /\ r.ub = None /\ r.ans = None
  BY <1>1, RestType, RestFields DEF Locals, AllCommands
<1>3. /\ pc[x] = "idle" /\ GoTo(x, "revoke", r)
      /\ UNCHANGED <<file, tomb, holder, mem, used, alock, server, history>>
  BY DEF LogoutAll
<1>. HIDE DEF r
<1>4. TypeOK' BY <1>1, <1>2, <1>3, PCsAll, GoToType DEF TypeOK, server, history
<1>5. Moves(x, "revoke", r)
  BY <1>1, <1>2, <1>3 DEF Moves, server, history, TypeOK
<1>. QED BY <1>1, <1>4, <1>5, MovesStep

\* Starting `auth use` preserves the invariant.
LEMMA UseStep ==
  ASSUME IInv, NEW x \in Cli, NEW q \in Profile, Use(x, q) PROVE IInv'
<1>. DEFINE r == [Rest EXCEPT !.op = "use", !.q = q]
<1>1. TypeOK /\ x \in Actor /\ x \notin Task BY DEF IInv, Actor
<1>2. r \in Locals /\ r.op = "use" /\ r.fb = None /\ r.ub = None /\ r.ans = None
  BY RestType, RestFields DEF Locals, AllCommands
<1>3. /\ pc[x] = "idle" /\ GoTo(x, "acquire", r)
      /\ UNCHANGED <<file, tomb, holder, mem, used, alock, server, history>>
  BY DEF Use
<1>. HIDE DEF r
<1>4. TypeOK' BY <1>1, <1>2, <1>3, PCsAll, GoToType DEF TypeOK, server, history
<1>5. Moves(x, "acquire", r)
  BY <1>1, <1>2, <1>3 DEF Moves, server, history, TypeOK
<1>. QED BY <1>1, <1>4, <1>5, MovesStep

\* Starting a refresh command preserves the invariant.
LEMMA RefreshCommandStep ==
  ASSUME IInv, NEW x \in Cli, NEW q \in Profile, RefreshCommand(x, q) PROVE IInv'
<1>1. TypeOK /\ x \in Actor /\ x \notin Task /\ file.tok[q] \in Gen \cup {None}
  BY ProfileType DEF IInv, Actor
<1>2. /\ pc[x] = "idle" /\ file.tok[q] # None
      /\ UNCHANGED <<file, tomb, holder, mem, used, alock, server, history>>
  BY DEF RefreshCommand
<1>3. PICK op \in Commands \cap {"refresh", "token", "scope"} :
        GoTo(x, "acquire", [Rest EXCEPT !.op = op, !.q = q, !.fb = file.tok[q],
                             !.rej = IF op = "token" THEN None ELSE file.tok[q]])
  BY DEF RefreshCommand
<1>. DEFINE r == [Rest EXCEPT !.op = op, !.q = q, !.fb = file.tok[q],
                             !.rej = IF op = "token" THEN None ELSE file.tok[q]]
<1>4. /\ r \in Locals /\ r.op = op /\ r.fb = file.tok[q] /\ r.ub = None /\ r.ans = None
      /\ r.q = q
  BY <1>1, RestType, RestFields DEF Locals, AllCommands
<1>5. GoTo(x, "acquire", r) BY <1>3
<1>. HIDE DEF r
<1>6. TypeOK' BY <1>1, <1>2, <1>4, <1>5, PCsAll, GoToType DEF TypeOK, server, history
<1>7. Moves(x, "acquire", r)
  BY <1>1, <1>2, <1>4, <1>5 DEF Moves, server, history, TypeOK
<1>. QED BY <1>1, <1>6, <1>7, MovesStep

\* A revocation preserves the invariant.
LEMMA RevokeStep ==
  ASSUME IInv, NEW x \in Cli, NEW q \in Profile, Revoke(x, q) PROVE IInv'
<1>. DEFINE left == loc[x].todo \ {q}
            r == [loc[x] EXCEPT !.todo = left]
            l == IF left = {} THEN "acquire" ELSE "revoke"
<1>1. TypeOK /\ x \in Actor /\ x \notin Task BY DEF IInv, Actor
<1>2. /\ r \in Locals /\ r.op = loc[x].op /\ r.fb = loc[x].fb /\ r.ub = loc[x].ub
      /\ r.ans = loc[x].ans /\ r.q = loc[x].q
  <2>1. loc[x] \in Locals /\ left \subseteq Profile
    BY <1>1, LocalsType DEF TypeOK
  <2>. QED BY <2>1 DEF Locals
<1>3. /\ pc[x] = "revoke" /\ GoTo(x, l, r) /\ live' \subseteq live
      /\ UNCHANGED <<file, tomb, holder, mem, used, alock, issued, void, orphans,
                     stale, root, history>>
  BY DEF Revoke
<1>4. l \in {"acquire", "revoke"} OBVIOUS
<1>. HIDE DEF r, l
<1>5. TypeOK' BY <1>1, <1>2, <1>3, <1>4, PCsAll, GoToType DEF TypeOK, history
<1>6. loc[x].ub = None /\ (loc[x].op \in {"login", "consent"} => loc[x].ans \in Gen)
  BY <1>1, <1>3 DEF IInv, OpsInPlace
<1>7. loc[x].op \in {"skew", "force", "refresh", "token", "scope"} =>
        file.tok[loc[x].q] # None \/ loc[x].q \in tomb BY DEF IInv, KnownProfile, Refreshes
<1>8. Moves(x, l, r)
  BY <1>1, <1>2, <1>3, <1>4, <1>6, <1>7 DEF Moves, history, TypeOK
<1>. QED BY <1>1, <1>5, <1>8, MovesStep

\* Recording a logout preserves the invariant.
LEMMA RecordLogoutStep ==
  ASSUME IInv, NEW x \in Cli, RecordLogout(x) PROVE IInv'
<1>1. TypeOK /\ x \in Actor /\ x \notin Task BY DEF IInv, Actor
<1>2. CASE Release(x) /\ Return(x) /\ UNCHANGED tomb BY <1>2, RecordLogoutFails
<1>3. CASE ~(Release(x) /\ Return(x) /\ UNCHANGED tomb)
  <2>1. /\ tomb' = IF loc[x].op = "logout" THEN tomb \cup {loc[x].q} ELSE Profile
        /\ pc' = [pc EXCEPT ![x] = "recorded"]
        /\ pc[x] = "locked" /\ loc[x].op \in {"logout", "logout_all"}
        /\ UNCHANGED <<holder, loc, alock, file, mem, used, server, history>>
    BY <1>3 DEF RecordLogout
  <2>2. GoTo(x, "recorded", loc[x]) BY <1>1, <2>1 DEF GoTo, TypeOK
  <2>3. loc[x].q \in Profile /\ loc[x] \in Locals BY <1>1, LocalsType DEF TypeOK
  <2>4. tomb \subseteq tomb' /\ tomb' \subseteq Profile BY <1>1, <2>1, <2>3 DEF TypeOK
  <2>5. TypeOK' BY <1>1, <2>1, <2>2, <2>3, <2>4, PCsAll, GoToType DEF TypeOK, server, history
  <2>6. loc[x].ub = None /\ holder = x BY <1>1, <2>1 DEF IInv, OpsInPlace, LockHeld
  <2>7. \/ loc[x].op = "logout" /\ loc[x].q \in tomb'
        \/ loc[x].op = "logout_all" /\ tomb' = Profile
    BY <2>1
  <2>8. Moves(x, "recorded", loc[x])
    BY <1>1, <2>1, <2>2, <2>4, <2>6, <2>7 DEF Moves, server, history, TypeOK
  <2>. QED BY <1>1, <2>5, <2>8, MovesStep
<1>. QED BY <1>2, <1>3

\* Sending a refresh preserves the invariant: under the lock the token sent is
\* the one on file, or the unsaved one of this process, and neither is used up.
LEMMA RefreshPostStep ==
  ASSUME IInv, NEW x \in Actor, RefreshPost(x) PROVE IInv'
<1>. DEFINE sel == IF Disk(x) # None THEN Disk(x) ELSE loc[x].fb
            r == [loc[x] EXCEPT !.sel = sel, !.cf = file, !.ans = None]
<1>i. TypeOK /\ LockHeld /\ LoadedIsCurrent /\ OneRefresher /\ OpsInPlace
        /\ KnownProfile /\ NotNewer /\ FileDistinct /\ AnswerFresh
        /\ UnsavedMem /\ UnsavedLoc /\ FileRefreshable /\ NoReuse BY DEF IInv
<1>t. TypeOK' BY <1>i, RefreshPostType
<1>1. /\ pc[x] = "locked" /\ Refreshes(x) /\ ~LoggedOut(x)
      /\ GoTo(x, "post", r)
      /\ reused' = IF sel \in spent THEN reused \cup {sel} ELSE reused
      /\ UNCHANGED <<file, tomb, holder, mem, used, alock, issued, orphans, spent, faulted>>
  BY DEF RefreshPost, server
<1>2. /\ r.sel = sel /\ r.cf = file /\ r.ans = None /\ r.fb = loc[x].fb
      /\ r.ub = loc[x].ub /\ r.op = loc[x].op /\ r.q = loc[x].q
  BY <1>i DEF TypeOK, Locals
<1>3. /\ \A y \in Actor : y # x => loc'[y] = loc[y] /\ pc'[y] = pc[y]
      /\ \A y \in Actor : /\ loc'[y].fb = loc[y].fb /\ loc'[y].ub = loc[y].ub
                          /\ loc'[y].op = loc[y].op /\ loc'[y].q = loc[y].q
      /\ pc'[x] = "post" /\ loc'[x].sel = sel /\ loc'[x].cf = file /\ loc'[x].ans = None
  <2>1. /\ pc'[x] = "post" /\ loc'[x] = r
        /\ \A y \in Actor : y # x => pc'[y] = pc[y] /\ loc'[y] = loc[y]
    BY <1>1, <1>i, GoToEffect
  <2>. HIDE DEF r, sel
  <2>. QED BY <2>1, <1>2
<1>4. \A y \in Actor : pc[y] # "post" BY <1>1, <1>i DEF LockHeld
<1>5. ProfileOf(x) \in Profile /\ file.tok[ProfileOf(x)] \in Gen \cup {None}
  BY <1>i, ProfileType
<1>6. file.tok[ProfileOf(x)] # None
  <2>1. CASE x \in Task
    BY <1>1, <1>i, <2>1 DEF KnownProfile, LoggedOut, OnFile, ProfileOf
  <2>2. CASE x \in Cli
    BY <1>1, <1>i, <2>2 DEF KnownProfile, LoggedOut, OnFile, ProfileOf
  <2>. QED BY <2>1, <2>2 DEF Actor
<1>7. \/ sel = file.tok[ProfileOf(x)]
      \/ x \in Task /\ loc[x].ub # None /\ sel = loc[x].fb
  BY <1>6, <1>i DEF Disk, OnFile, OpsInPlace, Actor
<1>8. x \in Task /\ loc[x].ub # None => /\ PrivateTo(TaskProc[x], loc[x].fb)
                                        /\ loc[x].fb \notin spent \ faulted
  BY <1>1, <1>i DEF UnsavedLoc
<1>9. /\ sel \in Gen /\ sel <= issued
      /\ sel \in spent => sel \in faulted
  <2>1. CASE sel = file.tok[ProfileOf(x)]
    BY <2>1, <1>4, <1>5, <1>6, <1>i DEF FileRefreshable, NotNewer
  <2>2. CASE x \in Task /\ loc[x].ub # None /\ sel = loc[x].fb
    BY <2>2, <1>8, <1>i DEF PrivateTo, NotNewer
  <2>. QED BY <2>1, <2>2, <1>7
<1>. HIDE DEF sel, r
<1>u. UNCHANGED <<file, tomb, holder, mem, used, alock, issued, orphans, spent, faulted>> BY <1>1
<1>p. /\ pc[x] = "locked" /\ Refreshes(x)
      /\ reused' = IF sel \in spent THEN reused \cup {sel} ELSE reused BY <1>1
<1>T. issued \in 1..MaxGen /\ 0 <= issued BY <1>i DEF TypeOK, Gen
<1>c1. LockHeld' /\ LoadedIsCurrent' /\ OneRefresher'
  BY <1>u, <1>p, <1>3, <1>i DEF LockHeld, LoadedIsCurrent, OneRefresher, Actor
<1>c2. OpsInPlace'
  <2>1. ASSUME NEW t \in Task
        PROVE /\ loc'[t].op \in {"none", "skew", "force"}
              /\ pc'[t] \in {"await_lock", "acquire", "locked", "post"} => Refreshes(t)'
    BY <1>p, <1>3, <1>i DEF OpsInPlace, Refreshes, Actor
  <2>2. \A y \in Cli : loc'[y].ub = None BY <1>3, <1>i DEF OpsInPlace, Actor
  <2>3. ASSUME NEW y \in Actor
        PROVE /\ loc'[y].op \in {"login", "consent"} => loc'[y].ans \in Gen
              /\ pc'[y] = "post" => Refreshes(y)' /\ loc'[y].sel \in Gen
              /\ pc'[y] = "recorded" =>
                    \/ loc'[y].op = "logout" /\ loc'[y].q \in tomb'
                    \/ loc'[y].op = "logout_all" /\ tomb' = Profile
    BY <1>u, <1>p, <1>3, <1>9, <1>i DEF OpsInPlace, Refreshes
  <2>. QED BY <2>1, <2>2, <2>3 DEF OpsInPlace
<1>c3. KnownProfile'
  BY <1>u, <1>p, <1>3, <1>i DEF KnownProfile, Refreshes, Actor
<1>c4. NotNewer'
  BY <1>u, <1>p, <1>3, <1>9, <1>i, <1>T DEF NotNewer, None
<1>c5. FileDistinct' BY <1>u, <1>3, <1>5, <1>6, <1>7, <1>8, <1>i DEF FileDistinct, ProfileOf, PrivateTo
<1>s. ASSUME NEW g \in Gen, Sends(x, g)' PROVE Sends(x, g) \/ g = sel
  BY <1>3, <1>s DEF Sends
<1>c6. AnswerFresh'
  <2>1. ASSUME NEW y \in Actor, loc'[y].ans \in Gen PROVE y # x /\ loc[y].ans \in Gen /\ loc'[y].ans = loc[y].ans
    BY <2>1, <1>3, Tokens
  <2>2. ASSUME NEW y \in Actor, NEW g \in Gen, loc[y].ans = g
        PROVE ~Sends(x, g)'
    <3>1. g # sel
      BY <2>2, <1>i, <1>5, <1>7, <1>8 DEF AnswerFresh, PrivateTo
    <3>. QED BY <3>1, <2>2, <1>s, <1>i DEF AnswerFresh
  <2>3. \A g : \A z \in Actor : z # x => (Sends(z, g)' <=> Sends(z, g)) BY <1>3 DEF Sends
  <2>4. \A y \in Actor : loc'[y].ans = loc[y].ans \/ loc'[y].ans = None BY <1>3
  <2>. QED BY <1>u, <2>1, <2>2, <2>3, <2>4, <1>i, Tokens DEF AnswerFresh
<1>q. ASSUME NEW p \in Proc, NEW g, PrivateTo(p, g) PROVE PrivateTo(p, g)'
  <2>1. ASSUME NEW y \in Actor PROVE loc'[y].ans # g
    BY <1>q, <1>3, Tokens DEF PrivateTo
  <2>2. ASSUME NEW y \in Actor, Sends(y, g)' PROVE y \in Task /\ TaskProc[y] = p
    <3>1. CASE y # x BY <3>1, <2>2, <1>3, <1>q DEF Sends, PrivateTo
    <3>2. CASE y = x
      <4>1. g = sel => x \in Task /\ sel = loc[x].fb
        BY <1>q, <1>5, <1>7 DEF PrivateTo
      <4>2. Sends(x, g) BY <4>1, <3>2, <2>2, <1>s, <1>q DEF PrivateTo, Sends
      <4>. QED BY <4>2, <3>2, <1>q DEF PrivateTo
    <3>. QED BY <3>1, <3>2
  <2>. QED BY <1>q, <1>u, <2>1, <2>2 DEF PrivateTo
<1>c7. UnsavedMem'
  <2>1. ASSUME NEW p \in Proc, used[p] # None
        PROVE PrivateTo(p, mem[p]) /\ mem[p] \notin spent \ faulted
    BY <2>1, <1>4, <1>i DEF UnsavedMem, Saving, Actor
  <2>. QED BY <2>1, <1>q, <1>u DEF UnsavedMem
<1>c8. UnsavedLoc'
  <2>1. ASSUME NEW t \in Task, pc'[t] \in {"acquire", "locked"}, loc'[t].ub # None
        PROVE PrivateTo(TaskProc[t], loc'[t].fb) /\ loc'[t].fb \notin spent \ faulted
    <3>1. t # x /\ t \in Actor BY <2>1, <1>3 DEF Actor
    <3>2. /\ pc[t] \in {"acquire", "locked"} /\ loc[t].ub # None
          /\ loc'[t].fb = loc[t].fb BY <3>1, <2>1, <1>3
    <3>. QED BY <3>2, <1>i DEF UnsavedLoc
  <2>. QED BY <2>1, <1>q, <1>u DEF UnsavedLoc
<1>c9. FileRefreshable'
  BY <1>u, <1>4, <1>i DEF FileRefreshable
<1>c10. NoReuse' BY <1>u, <1>p, <1>9, <1>i DEF NoReuse
<1>. QED BY <1>t, <1>c1, <1>c2, <1>c3, <1>c4, <1>c5, <1>c6, <1>c7, <1>c8, <1>c9, <1>c10 DEF IInv

\* Process p takes the token of its profile from the file into memory; the
\* tasks in back, which held the lock, go on without it.
Learns(p, back) ==
  /\ mem' = [mem EXCEPT ![p] = file.tok[ProcProfile[p]]]
  /\ used' = [used EXCEPT ![p] = None]
  /\ file.tok[ProcProfile[p]] # None
  /\ UNCHANGED <<file, tomb, issued, orphans, spent, faulted, reused>>
  /\ \A y \in Actor \ back : /\ pc'[y] = pc[y] /\ loc'[y] = loc[y]
                             /\ holder = y => holder' = y
  /\ \A y \in back : /\ pc[y] # "post" /\ pc'[y] \in {"sent", "await_lock"}
                     /\ loc'[y].fb = None /\ loc'[y].ub = None /\ loc'[y].ans = None
                     /\ loc'[y].op \in {"none", "skew"}
                     /\ pc'[y] = "await_lock" => loc'[y].op = "skew"
                     /\ y \in Task /\ TaskProc[y] = p
  /\ \A t \in Task \ back : alock[TaskProc[t]] = t => alock'[TaskProc[t]] = t

\* A process that learns the token on file preserves the invariant.
LEMMA LearnsStep ==
  ASSUME IInv, TypeOK', NEW p \in Proc, NEW back \in SUBSET Actor, Learns(p, back)
  PROVE IInv'
<1>i. TypeOK /\ LockHeld /\ LoadedIsCurrent /\ OneRefresher /\ OpsInPlace
        /\ KnownProfile /\ NotNewer /\ FileDistinct /\ AnswerFresh
        /\ UnsavedMem /\ UnsavedLoc /\ FileRefreshable /\ NoReuse BY DEF IInv
<1>1. /\ UNCHANGED <<file, tomb, issued, orphans, spent, faulted, reused>>
      /\ file.tok[ProcProfile[p]] # None
  BY DEF Learns
<1>2. /\ mem'[p] = file.tok[ProcProfile[p]] /\ used'[p] = None
      /\ \A r \in Proc : r # p => mem'[r] = mem[r] /\ used'[r] = used[r]
  BY <1>i DEF Learns, TypeOK
<1>3. \A y \in Actor : y \notin back => /\ pc'[y] = pc[y] /\ loc'[y] = loc[y]
                                        /\ holder = y => holder' = y
  BY DEF Learns
<1>4. \A y \in back : /\ pc[y] # "post" /\ pc'[y] \in {"sent", "await_lock"}
                      /\ loc'[y].fb = None /\ loc'[y].ub = None /\ loc'[y].ans = None
                      /\ loc'[y].op \in {"none", "skew"}
                      /\ pc'[y] = "await_lock" => loc'[y].op = "skew"
                      /\ y \in Task /\ TaskProc[y] = p
  BY DEF Learns
<1>5. ProcProfile[p] \in Profile OBVIOUS
<1>T. /\ issued \in 1..MaxGen /\ 0 <= issued BY <1>i DEF TypeOK, Gen
<1>c1. LockHeld' BY <1>3, <1>4, <1>i DEF LockHeld
<1>c2. LoadedIsCurrent' BY <1>1, <1>3, <1>4, <1>i DEF LoadedIsCurrent
<1>c3. OneRefresher' BY <1>3, <1>4, <1>i DEF OneRefresher, Learns, Actor
<1>c4. OpsInPlace'
  <2>1. ASSUME NEW t \in Task
        PROVE /\ loc'[t].op \in {"none", "skew", "force"}
              /\ pc'[t] \in {"await_lock", "acquire", "locked", "post"} => Refreshes(t)'
    BY <1>3, <1>4, <1>i DEF OpsInPlace, Refreshes, Actor
  <2>2. \A y \in Cli : loc'[y].ub = None BY <1>3, <1>4, <1>i DEF OpsInPlace, Actor
  <2>3. ASSUME NEW y \in Actor
        PROVE /\ loc'[y].op \in {"login", "consent"} => loc'[y].ans \in Gen
              /\ pc'[y] = "post" => Refreshes(y)' /\ loc'[y].sel \in Gen
              /\ pc'[y] = "recorded" =>
                    \/ loc'[y].op = "logout" /\ loc'[y].q \in tomb'
                    \/ loc'[y].op = "logout_all" /\ tomb' = Profile
    BY <1>1, <1>3, <1>4, <1>i DEF OpsInPlace, Refreshes
  <2>. QED BY <2>1, <2>2, <2>3 DEF OpsInPlace
<1>c5. KnownProfile'
  <2>1. \A y \in Cli : y \notin back /\ y \in Actor BY <1>4 DEF Actor
  <2>. QED BY <1>1, <1>2, <1>3, <1>4, <2>1, <1>i DEF KnownProfile, Refreshes, Actor
<1>c6. NotNewer' BY <1>1, <1>2, <1>3, <1>4, <1>5, <1>T, <1>i DEF NotNewer, None
<1>c7. FileDistinct' BY <1>1, <1>3, <1>4, <1>i DEF FileDistinct, ProfileOf
<1>s. \A y \in Actor : \A g \in Gen : Sends(y, g)' => Sends(y, g)
  BY <1>3, <1>4, Tokens DEF Sends
<1>c8. AnswerFresh'
  BY <1>1, <1>2, <1>3, <1>4, <1>5, <1>s, <1>i, Tokens DEF AnswerFresh
<1>q. ASSUME NEW r \in Proc, NEW g, PrivateTo(r, g) PROVE PrivateTo(r, g)'
  BY <1>q, <1>1, <1>2, <1>3, <1>4, <1>5, <1>s, Tokens DEF PrivateTo
<1>c9. UnsavedMem'
  <2>1. ASSUME NEW r \in Proc, used'[r] # None
        PROVE /\ PrivateTo(r, mem'[r])
              /\ mem'[r] \in spent \ faulted => Saving(r, mem[r])
    BY <2>1, <1>2, <1>i DEF UnsavedMem
  <2>2. ASSUME NEW r \in Proc, NEW g, Saving(r, g) PROVE Saving(r, g)'
    BY <2>2, <1>3, <1>4 DEF Saving, Actor
  <2>3. ASSUME NEW r \in Proc, used'[r] # None PROVE mem'[r] = mem[r]
    BY <2>3, <1>2
  <2>. QED BY <2>1, <2>2, <2>3, <1>q, <1>1 DEF UnsavedMem
<1>c10. UnsavedLoc'
  <2>1. ASSUME NEW t \in Task, pc'[t] \in {"acquire", "locked"}, loc'[t].ub # None
        PROVE PrivateTo(TaskProc[t], loc'[t].fb) /\ loc'[t].fb \notin spent \ faulted
    BY <2>1, <1>3, <1>4, <1>i DEF UnsavedLoc, Actor
  <2>. QED BY <2>1, <1>q, <1>1 DEF UnsavedLoc
<1>c11. FileRefreshable' BY <1>1, <1>3, <1>4, <1>i DEF FileRefreshable, LockHeld
<1>c12. NoReuse' BY <1>1, <1>i DEF NoReuse
<1>. QED BY <1>c1, <1>c2, <1>c3, <1>c4, <1>c5, <1>c6, <1>c7, <1>c8, <1>c9, <1>c10, <1>c11, <1>c12 DEF IInv

\* Learning the token on file leaves memory well typed.
LEMMA LearnsType ==
  ASSUME TypeOK, NEW p \in Proc, NEW back, Learns(p, back)
  PROVE /\ mem' \in [Proc -> Gen \cup {None}] /\ used' \in [Proc -> Gen \cup {None}]
<1>1. file.tok[ProcProfile[p]] \in Gen \cup {None} BY DEF TypeOK, File
<1>. QED BY <1>1 DEF Learns, TypeOK

\* A process that starts preserves the invariant.
LEMMA StartProcStep ==
  ASSUME IInv, NEW p \in Proc, StartProc(p) PROVE IInv'
<1>1. TypeOK BY DEF IInv
<1>2. /\ mem' = [mem EXCEPT ![p] = file.tok[ProcProfile[p]]]
      /\ mem[p] = None /\ file.tok[ProcProfile[p]] # None
      /\ UNCHANGED <<file, tomb, holder, used, alock, pc, loc, server, history>>
  BY DEF StartProc
<1>3. used' = [used EXCEPT ![p] = None]
  BY <1>1, <1>2 DEF IInv, UnsavedMem, PrivateTo, TypeOK, None, Gen
<1>4. Learns(p, {}) BY <1>2, <1>3 DEF Learns, server, history
<1>5. TypeOK' BY <1>1, <1>2, <1>4, LearnsType DEF TypeOK, server, history
<1>. QED BY <1>4, <1>5, LearnsStep

\* Reading the file again for a new client preserves the invariant.
LEMMA ReloadStateStep ==
  ASSUME IInv, NEW p \in Proc, ReloadState(p) PROVE IInv'
<1>1. TypeOK BY DEF IInv
<1>2. Learns(p, {}) BY DEF ReloadState, Learns, server, history
<1>3. TypeOK' BY <1>1, <1>2, LearnsType DEF ReloadState, TypeOK, server, history
<1>. QED BY <1>2, <1>3, LearnsStep

\* Adopting the token another process refreshed preserves the invariant.
LEMMA RefreshAdoptStep ==
  ASSUME IInv, NEW x \in Actor, RefreshAdopt(x) PROVE IInv'
<1>1. TypeOK BY DEF IInv
<1>2. /\ pc[x] = "locked" /\ Disk(x) # None /\ Release(x) /\ Adopt(x, Disk(x))
      /\ UNCHANGED <<file, tomb, server, history>>
  BY DEF RefreshAdopt, AlreadyRotated
<1>3. Disk(x) = file.tok[ProfileOf(x)] /\ Disk(x) \in Gen
  BY <1>1, <1>2, ProfileType DEF Disk, OnFile
<1>4. TypeOK'
  <2>1. /\ pc' \in [Actor -> PCs] /\ loc' \in [Actor -> Locals]
        /\ alock' \in [Proc -> Task \cup {NoOne}]
        /\ mem' \in [Proc -> Gen \cup {None}]
        /\ used' \in [Proc -> Gen \cup {None}]
    BY <1>1, <1>2, <1>3, AdoptType
  <2>. QED BY <1>1, <1>2, <2>1, ReleaseEffect DEF TypeOK, server, history
<1>5. CASE x \in Task
  <2>. DEFINE p == TaskProc[x]
              r == [Rest EXCEPT !.tok = Disk(x), !.rej = loc[x].rej, !.again = loc[x].again]
              s == [Rest EXCEPT !.op = "skew", !.again = TRUE, !.rej = loc[x].rej]
  <2>1. /\ r.fb = None /\ r.ub = None /\ r.ans = None /\ r.op = "none"
        /\ s.fb = None /\ s.ub = None /\ s.ans = None /\ s.op = "skew"
    BY DEF Rest
  <2>2. /\ mem' = [mem EXCEPT ![p] = Disk(x)] /\ used' = [used EXCEPT ![p] = None]
        /\ alock' = Unlocked(x)
        /\ GoTo(x, "sent", r) \/ GoTo(x, "await_lock", s)
    BY <1>2, <1>5 DEF Adopt
  <2>. HIDE DEF r, s
  <2>3. /\ pc'[x] \in {"sent", "await_lock"} /\ (loc'[x] = r \/ loc'[x] = s)
        /\ pc'[x] = "await_lock" => loc'[x] = s
        /\ \A y \in Actor : y # x => pc'[y] = pc[y] /\ loc'[y] = loc[y]
    BY <1>1, <2>2, GoToEffect
  <2>4. \A t \in Task \ {x} : alock[TaskProc[t]] = t => alock'[TaskProc[t]] = t
    BY <2>2 DEF Unlocked
  <2>5. Disk(x) = file.tok[ProcProfile[p]] BY <1>3, <1>5 DEF ProfileOf
  <2>6. Learns(p, {x})
    BY <1>1, <1>2, <1>5, <2>1, <2>2, <2>3, <2>4, <2>5, ReleaseEffect
    DEF Learns, server, history
  <2>. QED BY <1>4, <1>5, <2>6, LearnsStep
<1>6. CASE x \notin Task
  <2>1. Forgets({x})
    BY <1>1, <1>2, <1>6, ReturnEffect, ReleaseEffect DEF Adopt, Forgets, server, history, TypeOK
  <2>. QED BY <1>4, <2>1, ForgetsStep
<1>. QED BY <1>5, <1>6

\* The holder x of the lock saves its token response a as profile q and is done
\* with the file; a client's process takes the response into memory as well.
Saves(x, q, a) ==
  /\ pc[x] \in {"locked", "post"} /\ loc[x].ans = a
  /\ \A r \in Profile : file'.tok[r] = IF r = q THEN a ELSE file.tok[r]
  /\ pc[x] = "post" => q = ProfileOf(x)
  /\ UNCHANGED <<tomb, issued, orphans, spent, faulted, reused>>
  /\ \A y \in Actor \ {x} : /\ pc'[y] = pc[y] /\ loc'[y] = loc[y]
                            /\ holder = y => holder' = y
  /\ pc'[x] \in {"idle", "sent", "await_lock"}
  /\ loc'[x].fb = None /\ loc'[x].ub = None /\ loc'[x].ans = None
  /\ loc'[x].op \in {"none", "skew"}
  /\ pc'[x] = "await_lock" => loc'[x].op = "skew"
  /\ \/ /\ x \in Task
        /\ mem' = [mem EXCEPT ![TaskProc[x]] = a]
        /\ used' = [used EXCEPT ![TaskProc[x]] = None]
     \/ x \in Cli /\ loc'[x].op = "none" /\ UNCHANGED <<mem, used>>
  /\ \A t \in Task \ {x} : alock[TaskProc[t]] = t => alock'[TaskProc[t]] = t

\* A save under the lock preserves the invariant.
LEMMA SavesStep ==
  ASSUME IInv, TypeOK', NEW x \in Actor, NEW q \in Profile, NEW a \in Gen, Saves(x, q, a)
  PROVE IInv'
<1>i. TypeOK /\ LockHeld /\ LoadedIsCurrent /\ OneRefresher /\ OpsInPlace
        /\ KnownProfile /\ NotNewer /\ FileDistinct /\ AnswerFresh
        /\ UnsavedMem /\ UnsavedLoc /\ FileRefreshable /\ NoReuse BY DEF IInv
<1>1. /\ UNCHANGED <<tomb, issued, orphans, spent, faulted, reused>>
      /\ pc[x] \in {"locked", "post"} /\ loc[x].ans = a
  BY DEF Saves
<1>f. /\ file'.tok[q] = a /\ a # None
      /\ \A r \in Profile : r # q => file'.tok[r] = file.tok[r]
  BY Tokens DEF Saves
<1>a. /\ \A r \in Profile : file.tok[r] # a
      /\ \A r \in Proc : mem[r] # a
      /\ \A y \in Actor : /\ ~Sends(y, a)
                          /\ y # x => loc[y].ans # a
      /\ a \notin spent \cup orphans /\ a <= issued
  BY <1>1, <1>i DEF AnswerFresh, NotNewer
<1>m. \A r \in Proc : \/ mem'[r] = mem[r] /\ used'[r] = used[r] /\ (x \in Task => r # TaskProc[x])
                      \/ mem'[r] = a /\ used'[r] = None
  <2>1. mem \in [Proc -> Gen \cup {None}] /\ used \in [Proc -> Gen \cup {None}]
    BY <1>i DEF TypeOK
  <2>. QED BY <2>1 DEF Saves
<1>3. \A y \in Actor : y # x => /\ pc'[y] = pc[y] /\ loc'[y] = loc[y]
                                /\ holder = y => holder' = y
  BY DEF Saves
<1>4. /\ pc'[x] \in {"idle", "sent", "await_lock"}
      /\ loc'[x].fb = None /\ loc'[x].ub = None /\ loc'[x].ans = None
      /\ loc'[x].op \in {"none", "skew"}
      /\ pc'[x] = "await_lock" => loc'[x].op = "skew"
      /\ x \in Cli => loc'[x].op = "none"
  BY DEF Saves
<1>5. \A y \in Actor : y # x => pc[y] # "post" /\ pc'[y] # "post"
  BY <1>1, <1>3, <1>i DEF LockHeld
<1>T. issued \in 1..MaxGen /\ 0 <= issued BY <1>i DEF TypeOK, Gen
<1>c1. LockHeld' BY <1>3, <1>4, <1>i DEF LockHeld
<1>c2. LoadedIsCurrent' BY <1>4, <1>5 DEF LoadedIsCurrent
<1>c3. OneRefresher' BY <1>3, <1>4, <1>i DEF OneRefresher, Saves, Actor
<1>c4. OpsInPlace'
  <2>1. ASSUME NEW t \in Task
        PROVE /\ loc'[t].op \in {"none", "skew", "force"}
              /\ pc'[t] \in {"await_lock", "acquire", "locked", "post"} => Refreshes(t)'
    BY <1>3, <1>4, <1>i DEF OpsInPlace, Refreshes, Actor
  <2>2. \A y \in Cli : loc'[y].ub = None BY <1>3, <1>4, <1>i DEF OpsInPlace, Actor
  <2>3. ASSUME NEW y \in Actor
        PROVE /\ loc'[y].op \in {"login", "consent"} => loc'[y].ans \in Gen
              /\ pc'[y] = "post" => Refreshes(y)' /\ loc'[y].sel \in Gen
              /\ pc'[y] = "recorded" =>
                    \/ loc'[y].op = "logout" /\ loc'[y].q \in tomb'
                    \/ loc'[y].op = "logout_all" /\ tomb' = Profile
    BY <1>1, <1>3, <1>4, <1>5, <1>i DEF OpsInPlace, Refreshes
  <2>. QED BY <2>1, <2>2, <2>3 DEF OpsInPlace
<1>c5. KnownProfile'
  <2>1. ASSUME NEW r \in Profile, file.tok[r] # None \/ r \in tomb
        PROVE file'.tok[r] # None \/ r \in tomb'
    BY <2>1, <1>1, <1>f
  <2>2. ASSUME NEW p \in Proc, mem'[p] # None
        PROVE file'.tok[ProcProfile[p]] # None \/ ProcProfile[p] \in tomb'
    <3>1. CASE mem'[p] = mem[p] BY <2>1, <2>2, <3>1, <1>i DEF KnownProfile
    <3>2. CASE mem'[p] # mem[p]
      <4>1. /\ mem' = [mem EXCEPT ![TaskProc[x]] = a] /\ x \in Task
        BY <3>2 DEF Saves
      <4>2. p = TaskProc[x] BY <4>1, <3>2, <1>i DEF TypeOK
      <4>3. mem[p] # None BY <1>1, <4>1, <4>2, <1>i DEF KnownProfile
      <4>. QED BY <2>1, <4>3, <1>i DEF KnownProfile
    <3>. QED BY <3>1, <3>2
  <2>3. ASSUME NEW t \in Task, pc'[t] # "idle" PROVE mem'[TaskProc[t]] # None
    <3>1. t \in Actor /\ pc[t] # "idle" /\ TaskProc[t] \in Proc BY <2>3, <1>1, <1>3 DEF Actor
    <3>. QED BY <3>1, <1>m, <1>f, <1>i DEF KnownProfile
  <2>4. ASSUME NEW y \in Cli, Refreshes(y)'
        PROVE file'.tok[loc'[y].q] # None \/ loc'[y].q \in tomb'
    <3>1. y \in Actor /\ y # x BY <2>4, <1>4 DEF Refreshes, Actor
    <3>2. loc'[y] = loc[y] /\ Refreshes(y) BY <3>1, <2>4, <1>3 DEF Refreshes
    <3>. QED BY <3>1, <3>2, <2>1, <1>i, LocalsType DEF KnownProfile
  <2>. QED BY <2>2, <2>3, <2>4 DEF KnownProfile
<1>c6. NotNewer'
  <2>1. \A r \in Profile : file'.tok[r] <= issued' BY <1>1, <1>a, <1>f, <1>i DEF NotNewer
  <2>2. \A p \in Proc : mem'[p] <= issued' BY <1>1, <1>a, <1>m, <1>i DEF NotNewer
  <2>3. \A y \in Actor : /\ loc'[y].fb <= issued' /\ loc'[y].ans <= issued'
                         /\ pc'[y] = "post" => loc'[y].sel <= issued'
    BY <1>1, <1>3, <1>4, <1>T, <1>i, Tokens DEF NotNewer
  <2>. QED BY <2>1, <2>2, <2>3, <1>1, <1>i DEF NotNewer
<1>c7. FileDistinct' BY <1>4, <1>5, <1>f, <1>a, <1>i DEF FileDistinct
<1>s. \A y \in Actor : \A g \in Gen : Sends(y, g)' => Sends(y, g)
  BY <1>3, <1>4, Tokens DEF Sends
<1>c8. AnswerFresh'
  <2>1. ASSUME NEW y \in Actor, loc'[y].ans \in Gen
        PROVE y # x /\ loc'[y].ans = loc[y].ans /\ loc[y].ans # a
    BY <2>1, <1>3, <1>4, <1>a, Tokens
  <2>. QED BY <2>1, <1>1, <1>3, <1>4, <1>f, <1>m, <1>s, <1>i, Tokens DEF AnswerFresh
<1>q. ASSUME NEW r \in Proc, NEW g, PrivateTo(r, g) PROVE PrivateTo(r, g)'
  <2>1. g \in Gen /\ g # a BY <1>1, <1>q DEF PrivateTo
  <2>. QED BY <1>q, <2>1, <1>1, <1>3, <1>4, <1>f, <1>m, <1>s, Tokens DEF PrivateTo
<1>c9. UnsavedMem'
  <2>1. ASSUME NEW r \in Proc, used'[r] # None
        PROVE /\ mem'[r] = mem[r] /\ (x \in Task => r # TaskProc[x])
              /\ PrivateTo(r, mem'[r])
              /\ mem'[r] \in spent \ faulted => Saving(r, mem[r])
    BY <2>1, <1>m, <1>i DEF UnsavedMem
  <2>2. ASSUME NEW r \in Proc, NEW g, Saving(r, g), x \in Task => r # TaskProc[x]
        PROVE Saving(r, g)'
    BY <2>2, <1>3 DEF Saving, Actor
  <2>. QED BY <2>1, <2>2, <1>q, <1>1 DEF UnsavedMem
<1>c10. UnsavedLoc'
  <2>1. ASSUME NEW t \in Task, pc'[t] \in {"acquire", "locked"}, loc'[t].ub # None
        PROVE PrivateTo(TaskProc[t], loc'[t].fb) /\ loc'[t].fb \notin spent \ faulted
    BY <2>1, <1>3, <1>4, <1>i DEF UnsavedLoc, Actor
  <2>. QED BY <2>1, <1>q, <1>1 DEF UnsavedLoc
<1>c11. FileRefreshable'
  <2>1. ASSUME NEW r \in Profile, r # q, file.tok[r] \in spent \ faulted PROVE FALSE
    <3>1. PICK y \in Actor : pc[y] = "post" /\ loc[y].sel = file.tok[r]
      BY <2>1, <1>i DEF FileRefreshable
    <3>. QED BY <3>1, <2>1, <1>5, <1>i DEF FileDistinct, Saves
  <2>. QED BY <2>1, <1>1, <1>a, <1>f DEF FileRefreshable
<1>c12. NoReuse' BY <1>1, <1>i DEF NoReuse
<1>. QED BY <1>c1, <1>c2, <1>c3, <1>c4, <1>c5, <1>c6, <1>c7, <1>c8, <1>c9, <1>c10, <1>c11, <1>c12 DEF IInv

\* Saving a profile changes no other.
LEMMA SetProfileEffect ==
  ASSUME NEW cf \in File, NEW q \in Profile, NEW g
  PROVE \A r \in Profile : SetProfile(cf, q, g).tok[r] = IF r = q THEN g ELSE cf.tok[r]
BY DEF SetProfile, File

\* Saving a refreshed profile preserves the invariant.
LEMMA SaveRefreshedStep ==
  ASSUME IInv, NEW x \in Actor, SaveRefreshed(x) PROVE IInv'
<1>. DEFINE a == loc[x].ans
            q == ProfileOf(x)
<1>1. TypeOK /\ q \in Profile /\ file \in File BY ProfileType DEF IInv
<1>2. /\ pc[x] = "post" /\ a \in Gen
      /\ file' = SetProfile(loc[x].cf, q, a)
      /\ Release(x) /\ Adopt(x, a)
      /\ UNCHANGED <<tomb, server, spent, reused, faulted, ended>>
  BY DEF SaveRefreshed
<1>3. \A r \in Profile : file'.tok[r] = IF r = q THEN a ELSE file.tok[r]
  BY <1>1, <1>2, SetProfileEffect DEF IInv, LoadedIsCurrent
<1>4. TypeOK' BY <1>1, SaveRefreshedType
<1>5. CASE x \in Task
  <2>. DEFINE p == TaskProc[x]
              r == [Rest EXCEPT !.tok = a, !.rej = loc[x].rej, !.again = loc[x].again]
              s == [Rest EXCEPT !.op = "skew", !.again = TRUE, !.rej = loc[x].rej]
  <2>1. /\ r.fb = None /\ r.ub = None /\ r.ans = None /\ r.op = "none"
        /\ s.fb = None /\ s.ub = None /\ s.ans = None /\ s.op = "skew"
    BY DEF Rest
  <2>2. /\ mem' = [mem EXCEPT ![p] = a] /\ used' = [used EXCEPT ![p] = None]
        /\ alock' = Unlocked(x)
        /\ GoTo(x, "sent", r) \/ GoTo(x, "await_lock", s)
    BY <1>2, <1>5 DEF Adopt
  <2>. HIDE DEF r, s
  <2>3. /\ pc'[x] \in {"sent", "await_lock"} /\ (loc'[x] = r \/ loc'[x] = s)
        /\ pc'[x] = "await_lock" => loc'[x] = s
        /\ \A y \in Actor : y # x => pc'[y] = pc[y] /\ loc'[y] = loc[y]
    BY <1>1, <2>2, GoToEffect
  <2>4. \A t \in Task \ {x} : alock[TaskProc[t]] = t => alock'[TaskProc[t]] = t
    BY <2>2 DEF Unlocked
  <2>6. Saves(x, q, a)
    BY <1>1, <1>2, <1>3, <1>5, <2>1, <2>2, <2>3, <2>4, ReleaseEffect DEF Saves, server
  <2>. QED BY <1>1, <1>2, <1>4, <2>6, SavesStep
<1>6. CASE x \notin Task
  <2>1. Return(x) /\ UNCHANGED <<mem, used>> /\ x \in Cli BY <1>2, <1>6 DEF Adopt, Actor
  <2>2. Saves(x, q, a)
    BY <1>1, <1>2, <1>3, <2>1, ReturnEffect, ReleaseEffect, RestFields DEF Saves, server
  <2>. QED BY <1>1, <1>2, <1>4, <2>2, SavesStep
<1>. QED BY <1>5, <1>6

\* Saving a login or a consent preserves the invariant.
LEMMA UpdateProfileStep ==
  ASSUME IInv, NEW x \in Cli, UpdateProfile(x) PROVE IInv'
<1>. DEFINE a == loc[x].ans
            q == loc[x].q
<1>1. TypeOK /\ x \in Actor BY DEF IInv, Actor
<1>2. CASE UNCHANGED <<file, touched>> BY <1>2, UpdateProfileFails
<1>3. CASE file' = SetProfile(file, q, a) /\ Touch(x, q)
  <2>1. /\ pc[x] = "locked" /\ loc[x].op \in {"login", "consent"}
        /\ Release(x) /\ Return(x)
        /\ UNCHANGED <<tomb, mem, used, server, spent, reused, faulted, ended>>
    BY DEF UpdateProfile
  <2>2. a \in Gen /\ q \in Profile /\ file \in File
    BY <1>1, <2>1, LocalsType, ProfileType DEF IInv, OpsInPlace
  <2>3. \A r \in Profile : file'.tok[r] = IF r = q THEN a ELSE file.tok[r]
    BY <1>3, <2>2, SetProfileEffect
  <2>4. touched' \subseteq Cli BY <1>1, <1>3 DEF Touch, TypeOK
  <2>5. file' \in File BY <1>3, <2>2, SetProfileType
  <2>6. TypeOK' BY <1>1, <2>1, <2>4, <2>5, ReturnType, ReleaseEffect DEF TypeOK, server
  <2>7. Saves(x, q, a)
    BY <1>1, <2>1, <2>3, ReturnEffect, ReleaseEffect, RestFields DEF Saves, server
  <2>. QED BY <1>1, <2>2, <2>6, <2>7, SavesStep
<1>. QED BY <1>2, <1>3 DEF UpdateProfile

\* A refresh that cannot be saved preserves the invariant: from then on the new
\* token is known to its process alone.
LEMMA RefreshNotSavedStep ==
  ASSUME IInv, NEW x \in Actor, RefreshNotSaved(x) PROVE IInv'
<1>. DEFINE a == loc[x].ans
            p == TaskProc[x]
<1>i. TypeOK /\ LockHeld /\ LoadedIsCurrent /\ OneRefresher /\ OpsInPlace
        /\ KnownProfile /\ NotNewer /\ FileDistinct /\ AnswerFresh
        /\ UnsavedMem /\ UnsavedLoc /\ FileRefreshable /\ NoReuse BY DEF IInv
<1>1. /\ pc[x] = "post" /\ a \in Gen /\ Release(x) /\ Return(x)
      /\ faulted' = faulted \cup {loc[x].sel}
      /\ UNCHANGED <<file, tomb, server, spent, reused, ended, touched>>
  BY DEF RefreshNotSaved
<1>2. loc[x].sel \in Gen BY <1>1, <1>i DEF OpsInPlace
<1>3. CASE x \notin Task
  <2>1. UNCHANGED <<mem, used>> BY <1>3 DEF RefreshNotSaved
  <2>2. TypeOK' BY <1>i, <1>1, <1>2, <2>1, ReturnType, ReleaseEffect DEF TypeOK, server
  <2>3. Forgets({x})
    BY <1>i, <1>1, <2>1, ReturnEffect, ReleaseEffect DEF Forgets, server, TypeOK
  <2>. QED BY <2>2, <2>3, ForgetsStep
<1>4. CASE x \in Task
  <2>1. /\ mem' = [mem EXCEPT ![p] = a]
        /\ used' = [used EXCEPT ![p] = loc[x].cf.tok[ProfileOf(x)]]
    BY <1>4 DEF RefreshNotSaved
  <2>2. loc[x].cf.tok[ProfileOf(x)] \in Gen \cup {None} /\ p \in Proc
    BY <1>4, <1>i, ProfileType DEF File
  <2>3. /\ mem'[p] = a
        /\ \A r \in Proc : r # p => mem'[r] = mem[r] /\ used'[r] = used[r]
        /\ mem' \in [Proc -> Gen \cup {None}] /\ used' \in [Proc -> Gen \cup {None}]
    BY <2>1, <2>2, <1>1, <1>i DEF TypeOK
  <2>t. TypeOK'
    BY <1>1, <1>2, <2>3, <1>i, ReturnType, ReleaseEffect DEF TypeOK, server
  <2>4. /\ pc'[x] = "idle" /\ loc'[x] = Rest
        /\ \A y \in Actor : y # x => /\ pc'[y] = pc[y] /\ loc'[y] = loc[y]
                                     /\ holder = y => holder' = y
        /\ \A t \in Task : t # x /\ alock[TaskProc[t]] = t => alock'[TaskProc[t]] = t
    BY <1>1, <1>i, ReturnEffect, ReleaseEffect
  <2>5. \A y \in Actor : y # x => pc[y] # "post" /\ pc'[y] # "post"
    BY <1>1, <2>4, <1>i DEF LockHeld
  <2>a. /\ \A r \in Profile : file.tok[r] # a
        /\ \A r \in Proc : mem[r] # a
        /\ \A y \in Actor : /\ ~Sends(y, a)
                            /\ y # x => loc[y].ans # a
        /\ a \notin spent \cup orphans /\ a <= issued /\ a # None
    BY <1>1, <1>i, Tokens DEF AnswerFresh, NotNewer
  <2>u. UNCHANGED <<file, tomb, issued, orphans, spent, reused>> BY <1>1 DEF server
  <2>f. faulted' = faulted \cup {loc[x].sel} BY <1>1
  <2>T. issued \in 1..MaxGen /\ 0 <= issued BY <1>i DEF TypeOK, Gen
  <2>c1. LockHeld' BY <2>4, <1>i DEF LockHeld
  <2>c2. LoadedIsCurrent' BY <2>4, <2>5 DEF LoadedIsCurrent
  <2>c3. OneRefresher' BY <2>4, <1>i DEF OneRefresher, Actor
  <2>c4. OpsInPlace'
    BY <2>4, <2>u, <1>i, RestFields, Tokens DEF OpsInPlace, Refreshes, Actor
  <2>c5. KnownProfile'
    <3>1. \A r \in Proc : mem'[r] # None => mem[r] # None
      BY <1>1, <1>4, <2>3, <1>i DEF KnownProfile
    <3>2. \A t \in Task : pc'[t] # "idle" => mem'[TaskProc[t]] # None
      BY <2>3, <2>4, <2>a, <1>i DEF KnownProfile, Actor
    <3>3. \A y \in Cli : y # x /\ y \in Actor BY <1>4 DEF Actor
    <3>. QED BY <3>1, <3>2, <3>3, <2>4, <2>u, <1>i DEF KnownProfile, Refreshes
  <2>c6. NotNewer'
    BY <2>3, <2>4, <2>5, <2>a, <2>u, <2>f, <2>T, <1>i, RestFields, Tokens DEF NotNewer
  <2>c7. FileDistinct' BY <2>4, <2>5, <2>u, <1>i DEF FileDistinct
  <2>s. \A y \in Actor : \A g \in Gen : Sends(y, g)' => y # x /\ Sends(y, g)
    BY <2>4, RestFields, Tokens DEF Sends
  <2>c8. AnswerFresh'
    <3>1. ASSUME NEW y \in Actor, loc'[y].ans \in Gen
          PROVE y # x /\ loc'[y].ans = loc[y].ans /\ loc[y].ans # a
      BY <3>1, <2>4, <2>a, RestFields, Tokens
    <3>. QED BY <3>1, <2>3, <2>4, <2>u, <2>s, <1>i, RestFields, Tokens DEF AnswerFresh
  <2>q. ASSUME NEW r \in Proc, NEW g, PrivateTo(r, g) PROVE PrivateTo(r, g)'
    <3>1. g \in Gen /\ g # a BY <1>1, <2>q DEF PrivateTo
    <3>. QED BY <3>1, <2>q, <2>3, <2>4, <2>s, <2>u, RestFields, Tokens DEF PrivateTo
  <2>p. ASSUME NEW g, g = a PROVE PrivateTo(p, g)'
    BY <2>p, <2>2, <2>3, <2>4, <2>s, <2>u, <2>a, <1>1, RestFields, Tokens DEF PrivateTo
  <2>c9. UnsavedMem'
    <3>1. ASSUME NEW r \in Proc, used'[r] # None, r # p
          PROVE /\ PrivateTo(r, mem'[r])
                /\ mem'[r] \in spent \ faulted' => Saving(r, mem[r])
      BY <3>1, <2>3, <2>f, <1>i DEF UnsavedMem
    <3>2. ASSUME NEW r \in Proc, NEW g, Saving(r, g), r # p PROVE Saving(r, g)'
      BY <3>2, <2>4 DEF Saving, Actor
    <3>3. mem'[p] = a BY <2>3
    <3>4. mem'[p] \notin spent BY <2>3, <2>a
    <3>5. \A r \in Proc : r # p => mem'[r] = mem[r] BY <2>3
    <3>. QED BY <3>1, <3>2, <3>3, <3>4, <3>5, <2>p, <2>q, <2>u DEF UnsavedMem
  <2>c10. UnsavedLoc'
    <3>1. ASSUME NEW t \in Task, pc'[t] \in {"acquire", "locked"}, loc'[t].ub # None
          PROVE PrivateTo(TaskProc[t], loc'[t].fb) /\ loc'[t].fb \notin spent \ faulted'
      BY <3>1, <2>4, <2>f, <1>i DEF UnsavedLoc, Actor
    <3>. QED BY <3>1, <2>q, <2>u DEF UnsavedLoc
  <2>c11. FileRefreshable' BY <2>u, <2>f, <2>5, <1>i DEF FileRefreshable
  <2>c12. NoReuse' BY <2>u, <2>f, <1>i DEF NoReuse
  <2>. QED BY <2>t, <2>c1, <2>c2, <2>c3, <2>c4, <2>c5, <2>c6, <2>c7, <2>c8, <2>c9, <2>c10, <2>c11, <2>c12 DEF IInv
<1>. QED BY <1>3, <1>4

\* A token response gets the next number.
LEMMA IssueType ==
  ASSUME TypeOK, NEW r \in Gen \cup {None}, Issue(r)
  PROVE /\ issued' = issued + 1 /\ issued' \in Gen /\ issued \in Nat /\ 0 < issued
        /\ root' \in [Gen -> Gen \cup {None}]
BY DEF Issue, TypeOK, Gen

\* An exchange uses a token up and gets the next number.
LEMMA ExchangeType ==
  ASSUME TypeOK, NEW g, Exchange(g)
  PROVE /\ issued' = issued + 1 /\ issued' \in Gen /\ issued \in Nat /\ 0 < issued
        /\ root' \in [Gen -> Gen \cup {None}]
        /\ live' \subseteq Gen /\ spent' = spent \cup {g} /\ g \in Gen
<1>1. root[g] \in Gen \cup {None} /\ Issue(root[g]) BY DEF TypeOK, Exchange
<1>. QED BY <1>1, IssueType DEF Exchange, TypeOK

\* The server's exchange of a token preserves the invariant: nobody else is
\* about to send the token it uses up.
LEMMA ServerExchangesStep ==
  ASSUME IInv, NEW x \in Actor, ServerExchanges(x) PROVE IInv'
<1>. DEFINE n == issued + 1
            g == loc[x].sel
<1>i. TypeOK /\ LockHeld /\ LoadedIsCurrent /\ OneRefresher /\ OpsInPlace
        /\ KnownProfile /\ NotNewer /\ FileDistinct /\ AnswerFresh
        /\ UnsavedMem /\ UnsavedLoc /\ FileRefreshable /\ NoReuse BY DEF IInv
<1>1. /\ pc[x] = "post" /\ loc[x].ans = None /\ Exchange(g)
      /\ loc' = [loc EXCEPT ![x].ans = n]
      /\ UNCHANGED <<file, tomb, holder, mem, used, alock, pc, void, orphans, stale,
                     reused, faulted, ended, touched>>
  BY DEF ServerExchanges
<1>2. /\ issued' = n /\ n \in Gen /\ issued \in Nat /\ 0 < issued
      /\ root' \in [Gen -> Gen \cup {None}]
      /\ live' \subseteq Gen /\ spent' = spent \cup {g} /\ g \in Gen
  BY <1>1, <1>i, ExchangeType
<1>3. /\ loc' \in [Actor -> Locals]
      /\ loc'[x].ans = n /\ loc'[x].sel = g
      /\ \A y \in Actor : y # x => loc'[y] = loc[y]
      /\ \A y \in Actor : /\ loc'[y].fb = loc[y].fb /\ loc'[y].ub = loc[y].ub
                          /\ loc'[y].op = loc[y].op /\ loc'[y].q = loc[y].q
                          /\ loc'[y].sel = loc[y].sel /\ loc'[y].cf = loc[y].cf
  BY <1>1, <1>2, <1>i DEF TypeOK, Locals
<1>t. TypeOK' BY <1>1, <1>2, <1>3, <1>i DEF TypeOK
<1>. HIDE DEF n, g
<1>5. \A y \in Actor : pc[y] = "post" => y = x BY <1>1, <1>i DEF LockHeld
<1>u. UNCHANGED <<file, tomb, holder, mem, used, alock, pc, orphans, reused, faulted>> BY <1>1
<1>n. n = issued + 1 /\ g = loc[x].sel /\ n # None BY <1>2, Tokens DEF n, g
<1>g. g <= issued BY <1>1, <1>n, <1>i DEF NotNewer
<1>c1. LockHeld' /\ LoadedIsCurrent' /\ OneRefresher'
  BY <1>u, <1>3, <1>i DEF LockHeld, LoadedIsCurrent, OneRefresher, Actor
<1>c4. OpsInPlace'
  BY <1>1, <1>u, <1>3, <1>2, <1>i DEF OpsInPlace, Refreshes, Actor
<1>c5. KnownProfile' BY <1>u, <1>3, <1>i DEF KnownProfile, Refreshes, Actor
<1>G. /\ \A r \in Profile : file.tok[r] \in Nat
      /\ \A p \in Proc : mem[p] \in Nat
      /\ \A y \in Actor : /\ loc[y].fb \in Nat /\ loc[y].sel \in Nat
                          /\ loc[y].ans \in Int
      /\ spent \subseteq Nat /\ orphans \subseteq Nat
  BY <1>i, LocalsType, ProfileType, Tokens DEF TypeOK, Refused, ScopeRefused
<1>O. \A m \in Int : m <= issued => m <= n /\ m # n BY <1>n, <1>2
<1>c6. NotNewer'
  <2>1. \A r \in Profile : file.tok[r] <= n BY <1>G, <1>O, <1>i DEF NotNewer
  <2>2. \A p \in Proc : mem[p] <= n BY <1>G, <1>O, <1>i DEF NotNewer
  <2>3. ASSUME NEW y \in Actor
        PROVE /\ loc'[y].fb <= n /\ loc'[y].ans <= n
              /\ pc[y] = "post" => loc'[y].sel <= n
    <3>1. /\ loc[y].fb <= n /\ loc[y].ans <= n
          /\ pc[y] = "post" => loc[y].sel <= n
      BY <1>G, <1>O, <1>i DEF NotNewer
    <3>. QED BY <3>1, <1>3, <1>2, <1>n
  <2>4. \A h \in spent' \cup orphans : h <= n
    BY <1>2, <1>g, <1>G, <1>O, <1>n, <1>i DEF NotNewer
  <2>5. orphans \subseteq faulted BY <1>i DEF NotNewer
  <2>. QED BY <2>1, <2>2, <2>3, <2>4, <2>5, <1>2, <1>u DEF NotNewer
<1>c7. FileDistinct' BY <1>u, <1>3, <1>i DEF FileDistinct, ProfileOf
<1>s. \A y \in Actor : \A h : Sends(y, h)' <=> Sends(y, h)
  BY <1>u, <1>3 DEF Sends
<1>N. /\ \A r \in Profile : file.tok[r] # n
      /\ \A p \in Proc : mem[p] # n
      /\ \A y \in Actor : ~Sends(y, n) /\ loc[y].ans # n
      /\ n \notin spent \cup orphans /\ n # g
  <2>1. \A r \in Profile : file.tok[r] # n BY <1>G, <1>O, <1>i DEF NotNewer
  <2>2. \A p \in Proc : mem[p] # n BY <1>G, <1>O, <1>i DEF NotNewer
  <2>3. \A y \in Actor : ~Sends(y, n) /\ loc[y].ans # n
    BY <1>G, <1>O, <1>i DEF NotNewer, Sends
  <2>4. n \notin spent \cup orphans BY <1>2, <1>n, <1>i DEF NotNewer
  <2>5. n # g BY <1>G, <1>O, <1>g, <1>n
  <2>. QED BY <2>1, <2>2, <2>3, <2>4, <2>5
<1>c8. AnswerFresh'
  <2>1. ASSUME NEW y \in Actor, loc[y].ans \in Gen PROVE loc[y].ans # g
    BY <2>1, <1>1, <1>n, <1>i DEF AnswerFresh, Sends
  <2>2. ASSUME NEW y \in Actor, loc'[y].ans \in Gen
        PROVE \/ y = x /\ loc'[y].ans = n
              \/ y # x /\ loc'[y].ans = loc[y].ans /\ loc[y].ans # g
    BY <2>1, <2>2, <1>3
  <2>. QED BY <2>2, <1>2, <1>3, <1>u, <1>s, <1>N, <1>i DEF AnswerFresh
<1>q. ASSUME NEW r \in Proc, NEW h, PrivateTo(r, h), h # n PROVE PrivateTo(r, h)'
  BY <1>q, <1>3, <1>s, <1>u DEF PrivateTo
<1>c9. UnsavedMem'
  <2>1. ASSUME NEW r \in Proc, used[r] # None
        PROVE /\ PrivateTo(r, mem[r]) /\ mem[r] # n
              /\ mem[r] \in spent' \ faulted => Saving(r, mem[r])'
    <3>1. PrivateTo(r, mem[r]) /\ mem[r] # n BY <2>1, <1>N, <1>i DEF UnsavedMem
    <3>2. ASSUME mem[r] = g PROVE Saving(r, mem[r])'
      <4>1. x \in Task /\ TaskProc[x] = r
        BY <3>1, <3>2, <1>1, <1>n DEF PrivateTo, Sends
      <4>. QED BY <4>1, <3>2, <1>1, <1>2, <1>3, <1>u DEF Saving
    <3>3. ASSUME mem[r] \in spent \ faulted PROVE Saving(r, mem[r])'
      <4>1. Saving(r, mem[r]) BY <3>3, <2>1, <1>i DEF UnsavedMem
      <4>. QED BY <4>1, <1>1, <1>2, <1>3, <1>u DEF Saving, Actor
    <3>. QED BY <3>1, <3>2, <3>3, <1>2
  <2>. QED BY <2>1, <1>q, <1>u DEF UnsavedMem
<1>c10. UnsavedLoc'
  <2>1. ASSUME NEW t \in Task, pc[t] \in {"acquire", "locked"}, loc[t].ub # None
        PROVE /\ PrivateTo(TaskProc[t], loc[t].fb) /\ loc[t].fb # n
              /\ loc[t].fb \notin spent' \ faulted
    <3>1. PrivateTo(TaskProc[t], loc[t].fb) /\ loc[t].fb \notin spent \ faulted
      BY <2>1, <1>i DEF UnsavedLoc
    <3>2. loc[t].fb # n BY <1>N DEF Sends, Actor
    <3>3. ASSUME loc[t].fb = g PROVE FALSE
      <4>1. x \in Task /\ TaskProc[x] = TaskProc[t]
        BY <3>1, <3>3, <1>1, <1>n DEF PrivateTo, Sends
      <4>. QED BY <4>1, <2>1, <1>1, <1>i DEF OneRefresher
    <3>. QED BY <3>1, <3>2, <3>3, <1>2
  <2>. QED BY <2>1, <1>q, <1>3, <1>u DEF UnsavedLoc, Actor
<1>c11. FileRefreshable'
  <2>1. holder = x BY <1>1, <1>i DEF LockHeld
  <2>. QED BY <2>1, <1>1, <1>2, <1>3, <1>5, <1>u, <1>n, <1>i DEF FileRefreshable
<1>c12. NoReuse' BY <1>u, <1>i DEF NoReuse
<1>. QED BY <1>t, <1>c1, <1>c4, <1>c5, <1>c6, <1>c7, <1>c8, <1>c9, <1>c10, <1>c11, <1>c12 DEF IInv

\* The server's refusal preserves the invariant.
LEMMA ServerRefusesStep ==
  ASSUME IInv, NEW x \in Actor, ServerRefuses(x) PROVE IInv'
<1>i. TypeOK /\ LockHeld /\ LoadedIsCurrent /\ OneRefresher /\ OpsInPlace
        /\ KnownProfile /\ NotNewer /\ FileDistinct /\ AnswerFresh
        /\ UnsavedMem /\ UnsavedLoc /\ FileRefreshable /\ NoReuse BY DEF IInv
<1>1. /\ pc[x] = "post" /\ loc[x].ans = None
      /\ UNCHANGED <<file, tomb, holder, mem, used, alock, pc, server, history>>
  BY DEF ServerRefuses
<1>2. PICK n \in {Refused, ScopeRefused} : loc' = [loc EXCEPT ![x].ans = n]
  BY DEF ServerRefuses
<1>3. /\ loc' \in [Actor -> Locals]
      /\ loc'[x].ans = n
      /\ \A y \in Actor : y # x => loc'[y] = loc[y]
      /\ \A y \in Actor : /\ loc'[y].fb = loc[y].fb /\ loc'[y].ub = loc[y].ub
                          /\ loc'[y].op = loc[y].op /\ loc'[y].q = loc[y].q
                          /\ loc'[y].sel = loc[y].sel /\ loc'[y].cf = loc[y].cf
  BY <1>2, <1>i DEF TypeOK, Locals
<1>t. TypeOK' BY <1>1, <1>3, <1>i DEF TypeOK, server, history
<1>n. n \notin Gen /\ n # None /\ n <= 0 BY Tokens
<1>u. UNCHANGED <<file, tomb, holder, mem, used, alock, pc, issued, orphans, spent, reused, faulted>>
  BY <1>1 DEF server, history
<1>T. issued \in Nat /\ n <= issued
  BY <1>n, <1>i DEF TypeOK, Gen, Refused, ScopeRefused
<1>c1. LockHeld' /\ LoadedIsCurrent' /\ OneRefresher'
  BY <1>u, <1>3, <1>i DEF LockHeld, LoadedIsCurrent, OneRefresher, Actor
<1>c4. OpsInPlace'
  BY <1>1, <1>u, <1>3, <1>i DEF OpsInPlace, Refreshes, Actor
<1>c5. KnownProfile' BY <1>u, <1>3, <1>i DEF KnownProfile, Refreshes, Actor
<1>c6. NotNewer'
  BY <1>u, <1>3, <1>T, <1>i DEF NotNewer
<1>c7. FileDistinct' BY <1>u, <1>3, <1>i DEF FileDistinct, ProfileOf
<1>s. \A y \in Actor : \A h : Sends(y, h)' <=> Sends(y, h)
  BY <1>u, <1>3 DEF Sends
<1>c8. AnswerFresh' BY <1>u, <1>3, <1>n, <1>s, <1>i DEF AnswerFresh
<1>q. ASSUME NEW r \in Proc, NEW h, PrivateTo(r, h) PROVE PrivateTo(r, h)'
  BY <1>q, <1>3, <1>n, <1>s, <1>u DEF PrivateTo
<1>c9. UnsavedMem'
  <2>1. ASSUME NEW r \in Proc, NEW h, Saving(r, h) PROVE Saving(r, h)'
    BY <2>1, <1>1, <1>3, <1>u, Tokens DEF Saving, Actor
  <2>. QED BY <2>1, <1>q, <1>u, <1>i DEF UnsavedMem
<1>c10. UnsavedLoc' BY <1>q, <1>3, <1>u, <1>i DEF UnsavedLoc, Actor
<1>c11. FileRefreshable' BY <1>1, <1>3, <1>u, <1>i, Tokens DEF FileRefreshable
<1>c12. NoReuse' BY <1>u, <1>i DEF NoReuse
<1>. QED BY <1>t, <1>c1, <1>c4, <1>c5, <1>c6, <1>c7, <1>c8, <1>c9, <1>c10, <1>c11, <1>c12 DEF IInv

\* Tokens and answers are integers.
LEMMA Numbers ==
  ASSUME TypeOK
  PROVE /\ \A q \in Profile : file.tok[q] \in Int
        /\ \A p \in Proc : mem[p] \in Int
        /\ \A y \in Actor : loc[y].fb \in Int /\ loc[y].sel \in Int /\ loc[y].ans \in Int
        /\ spent \subseteq Int /\ orphans \subseteq Int
<1>1. Gen \subseteq Int /\ None \in Int /\ Refused \in Int /\ ScopeRefused \in Int
  BY DEF Gen, None, Refused, ScopeRefused
<1>2. \A q \in Profile : file.tok[q] \in Int BY <1>1 DEF TypeOK, File
<1>3. \A p \in Proc : mem[p] \in Int BY <1>1 DEF TypeOK
<1>4. \A y \in Actor : loc[y].fb \in Int /\ loc[y].sel \in Int /\ loc[y].ans \in Int
  BY <1>1, LocalsType
<1>5. spent \subseteq Int /\ orphans \subseteq Int BY <1>1 DEF TypeOK
<1>. QED BY <1>2, <1>3, <1>4, <1>5

\* A request that nobody waits for preserves the invariant when it arrives.
LEMMA ServerOrphanStep == IInv /\ ServerOrphan => IInv'
<1>. SUFFICES ASSUME IInv, ServerOrphan PROVE IInv' OBVIOUS
<1>i. TypeOK /\ LockHeld /\ LoadedIsCurrent /\ OneRefresher /\ OpsInPlace
        /\ KnownProfile /\ NotNewer /\ FileDistinct /\ AnswerFresh
        /\ UnsavedMem /\ UnsavedLoc /\ FileRefreshable /\ NoReuse BY DEF IInv
<1>1. PICK g \in orphans :
    /\ Exchange(g) \/ UNCHANGED <<issued, live, root, spent>>
    /\ orphans' = orphans \ {g}
    /\ UNCHANGED <<file, tomb, holder, mem, used, alock, pc, loc, void, stale,
                   reused, faulted, ended, touched>>
  BY DEF ServerOrphan
<1>2. /\ issued' \in Gen /\ issued <= issued' /\ issued \in Nat /\ issued' \in Nat
      /\ root' \in [Gen -> Gen \cup {None}] /\ live' \subseteq Gen
      /\ spent' = spent \/ spent' = spent \cup {g}
      /\ g \in Gen /\ g <= issued /\ g \in faulted
  <2>1. g \in Gen /\ g <= issued /\ g \in faulted /\ issued \in Gen /\ issued \in Nat
    BY <1>i, Tokens DEF TypeOK, NotNewer
  <2>2. CASE Exchange(g) BY <2>1, <2>2, <1>i, ExchangeType
  <2>3. CASE UNCHANGED <<issued, live, root, spent>> BY <2>1, <2>3, <1>i DEF TypeOK
  <2>. QED BY <1>1, <2>2, <2>3
<1>t. TypeOK' BY <1>1, <1>2, <1>i DEF TypeOK
<1>u. UNCHANGED <<file, tomb, holder, mem, used, alock, pc, loc, reused, faulted>> BY <1>1
<1>f. spent' \ faulted' = spent \ faulted BY <1>u, <1>2
<1>c1. LockHeld' /\ LoadedIsCurrent' /\ OneRefresher'
  BY <1>u, <1>i DEF LockHeld, LoadedIsCurrent, OneRefresher
<1>c4. OpsInPlace' /\ KnownProfile' BY <1>u, <1>i DEF OpsInPlace, KnownProfile, Refreshes
<1>c6. NotNewer'
  <2>1. \A m \in Int : m <= issued => m <= issued' BY <1>2
  <2>2. /\ \A r \in Profile : file.tok[r] \in Int
        /\ \A p \in Proc : mem[p] \in Int
        /\ \A y \in Actor : loc[y].fb \in Int /\ loc[y].sel \in Int /\ loc[y].ans \in Int
        /\ spent \subseteq Int /\ orphans \subseteq Int
    BY <1>i, Numbers
  <2>3. /\ \A r \in Profile : file.tok[r] <= issued'
        /\ \A p \in Proc : mem[p] <= issued'
    BY <2>1, <2>2, <1>i DEF NotNewer
  <2>4. \A y \in Actor : /\ loc[y].fb <= issued' /\ loc[y].ans <= issued'
                         /\ pc[y] = "post" => loc[y].sel <= issued'
    BY <2>1, <2>2, <1>i DEF NotNewer
  <2>5. \A h \in spent' \cup orphans' : h <= issued'
    BY <2>1, <2>2, <1>1, <1>2, <1>i DEF NotNewer
  <2>6. orphans' \subseteq faulted BY <1>1, <1>i DEF NotNewer
  <2>. QED BY <2>3, <2>4, <2>5, <2>6, <1>u DEF NotNewer
<1>c7. FileDistinct' BY <1>u, <1>i DEF FileDistinct, ProfileOf
<1>c8. AnswerFresh'
  <2>1. spent' \cup orphans' \subseteq spent \cup orphans BY <1>1, <1>2
  <2>. QED BY <2>1, <1>u, <1>i DEF AnswerFresh, Sends
<1>c9. UnsavedMem' /\ UnsavedLoc'
  BY <1>u, <1>f, <1>i DEF UnsavedMem, UnsavedLoc, PrivateTo, Sends, Saving
<1>c11. FileRefreshable' /\ NoReuse' BY <1>u, <1>f, <1>i DEF FileRefreshable, NoReuse
<1>. QED BY <1>t, <1>c1, <1>c4, <1>c6, <1>c7, <1>c8, <1>c9, <1>c11 DEF IInv

\* A step that changes no token and no actor preserves the invariant.
LEMMA SettingStep ==
  ASSUME IInv, TypeOK',
         UNCHANGED <<file, tomb, mem, used, alock, pc, loc, issued, orphans,
                     spent, reused, faulted>>,
         \A y \in Actor : holder = y => holder' = y
  PROVE IInv'
<1>1. TypeOK BY DEF IInv
<1>2. Forgets({}) BY <1>1 DEF Forgets, TypeOK
<1>. QED BY <1>2, ForgetsStep

\* Time, refused access tokens, retired markers and stuttering preserve it too.
LEMMA AgeVoidRetireStep ==
  ASSUME IInv,
         (\E g \in Gen : Age(g) \/ Void(g)) \/ Retire \/ UNCHANGED vars
  PROVE IInv'
<1>1. TypeOK BY DEF IInv
<1>2. CASE \E g \in Gen : Age(g) \/ Void(g)
  BY <1>1, <1>2, SettingStep DEF Age, Void, TypeOK, history
<1>3. CASE Retire
  BY <1>1, <1>3, SettingStep DEF Retire, Lock!Retire, TypeOK, server, history
<1>4. CASE UNCHANGED vars
  BY <1>1, <1>4, SettingStep DEF vars, TypeOK, server, history
<1>. QED BY <1>2, <1>3, <1>4

\* A token response of a new login preserves the invariant: it is new.
LEMMA ApproveStep ==
  ASSUME IInv, TypeOK', NEW x \in Cli, NEW r, NEW n \in Gen, n = issued + 1,
         GoTo(x, "acquire", r), pc[x] # "post",
         issued' = n, r.ans = n, r.fb \in {None, loc[x].fb}, r.ub = None,
         r.op \in {"login", "consent"},
         UNCHANGED <<file, tomb, holder, mem, used, alock, orphans, spent, reused, faulted>>
  PROVE IInv'
<1>i. TypeOK /\ LockHeld /\ LoadedIsCurrent /\ OneRefresher /\ OpsInPlace
        /\ KnownProfile /\ NotNewer /\ FileDistinct /\ AnswerFresh
        /\ UnsavedMem /\ UnsavedLoc /\ FileRefreshable /\ NoReuse BY DEF IInv
<1>x. x \in Actor /\ x \notin Task BY DEF Actor
<1>3. /\ pc'[x] = "acquire" /\ loc'[x] = r
      /\ \A y \in Actor : y # x => pc'[y] = pc[y] /\ loc'[y] = loc[y]
  BY <1>x, <1>i, GoToEffect
<1>u. UNCHANGED <<file, tomb, holder, mem, used, alock, orphans, spent, reused, faulted>>
  OBVIOUS
<1>n. n # None /\ issued \in Nat BY <1>i, Tokens DEF TypeOK
<1>G. /\ \A q \in Profile : file.tok[q] \in Int
      /\ \A p \in Proc : mem[p] \in Int
      /\ \A y \in Actor : loc[y].fb \in Int /\ loc[y].sel \in Int /\ loc[y].ans \in Int
      /\ spent \subseteq Int /\ orphans \subseteq Int
  BY <1>i, Numbers
<1>O. \A m \in Int : m <= issued => m <= n /\ m # n BY <1>n
<1>N. /\ \A q \in Profile : file.tok[q] # n
      /\ \A p \in Proc : mem[p] # n
      /\ \A y \in Actor : ~Sends(y, n) /\ loc[y].ans # n
      /\ n \notin spent \cup orphans
  <2>1. \A q \in Profile : file.tok[q] # n BY <1>G, <1>O, <1>i DEF NotNewer
  <2>2. \A p \in Proc : mem[p] # n BY <1>G, <1>O, <1>i DEF NotNewer
  <2>3. \A y \in Actor : ~Sends(y, n) /\ loc[y].ans # n
    BY <1>G, <1>O, <1>i DEF NotNewer, Sends
  <2>4. n \notin spent \cup orphans BY <1>n, <1>i DEF NotNewer
  <2>. QED BY <2>1, <2>2, <2>3, <2>4
<1>c1. LockHeld' /\ LoadedIsCurrent' /\ OneRefresher'
  BY <1>u, <1>x, <1>3, <1>i DEF LockHeld, LoadedIsCurrent, OneRefresher, Actor
<1>c4. OpsInPlace'
  BY <1>u, <1>x, <1>3, <1>i DEF OpsInPlace, Refreshes, Actor
<1>c5. KnownProfile' BY <1>u, <1>x, <1>3, <1>i DEF KnownProfile, Refreshes, Actor
<1>c6. NotNewer'
  <2>1. /\ \A q \in Profile : file.tok[q] <= n
        /\ \A p \in Proc : mem[p] <= n
    BY <1>G, <1>O, <1>i DEF NotNewer
  <2>2. \A y \in Actor : /\ loc[y].fb <= n /\ loc[y].ans <= n
                         /\ pc[y] = "post" => loc[y].sel <= n
    BY <1>G, <1>O, <1>i DEF NotNewer
  <2>3. ASSUME NEW y \in Actor
        PROVE /\ loc'[y].fb <= n /\ loc'[y].ans <= n
              /\ pc'[y] = "post" => loc'[y].sel <= n
    BY <2>2, <1>x, <1>3, <1>n, Tokens
  <2>4. \A h \in spent \cup orphans : h <= n BY <1>G, <1>O, <1>i DEF NotNewer
  <2>5. orphans \subseteq faulted BY <1>i DEF NotNewer
  <2>. QED BY <2>1, <2>3, <2>4, <2>5, <1>u DEF NotNewer
<1>c7. FileDistinct' BY <1>u, <1>3, <1>i DEF FileDistinct, ProfileOf
<1>s. \A y \in Actor : \A h \in Gen : Sends(y, h)' => Sends(y, h)
  BY <1>3, Tokens DEF Sends
<1>c8. AnswerFresh'
  <2>1. ASSUME NEW y \in Actor, loc'[y].ans \in Gen
        PROVE \/ y = x /\ loc'[y].ans = n
              \/ y # x /\ loc'[y].ans = loc[y].ans
    BY <2>1, <1>3
  <2>2. ASSUME NEW y \in Actor, NEW h \in Gen, loc'[y].ans = h
        PROVE /\ \A q \in Profile : file.tok[q] # h
              /\ \A p \in Proc : mem[p] # h
              /\ \A z \in Actor : ~Sends(z, h) /\ (z # y => loc'[z].ans # h)
              /\ h \notin spent \cup orphans
    <3>1. CASE y = x BY <3>1, <2>2, <1>3, <1>N, <1>i
    <3>2. CASE y # x /\ loc[y].ans = h
      <4>1. h # n BY <3>2, <1>N
      <4>. QED BY <4>1, <3>2, <2>2, <1>3, <1>i DEF AnswerFresh
    <3>. QED BY <3>1, <3>2, <2>1, <2>2
  <2>. QED BY <2>2, <1>u, <1>s DEF AnswerFresh
<1>q. ASSUME NEW p \in Proc, NEW h, PrivateTo(p, h), h # n PROVE PrivateTo(p, h)'
  BY <1>q, <1>3, <1>s, <1>u DEF PrivateTo
<1>c9. UnsavedMem'
  <2>1. ASSUME NEW p \in Proc, used[p] # None
        PROVE PrivateTo(p, mem[p]) /\ mem[p] # n
    BY <2>1, <1>N, <1>i DEF UnsavedMem
  <2>2. ASSUME NEW p \in Proc, NEW h, Saving(p, h) PROVE Saving(p, h)'
    BY <2>2, <1>x, <1>3 DEF Saving, Actor
  <2>. QED BY <2>1, <2>2, <1>q, <1>u, <1>i DEF UnsavedMem
<1>c10. UnsavedLoc'
  <2>1. ASSUME NEW t \in Task, pc[t] \in {"acquire", "locked"}, loc[t].ub # None
        PROVE /\ PrivateTo(TaskProc[t], loc[t].fb) /\ loc[t].fb # n
              /\ loc[t].fb \notin spent \ faulted
    BY <2>1, <1>N, <1>i DEF UnsavedLoc, Sends, Actor
  <2>. QED BY <2>1, <1>q, <1>x, <1>3, <1>u DEF UnsavedLoc, Actor
<1>c11. FileRefreshable' /\ NoReuse'
  BY <1>3, <1>u, <1>i DEF FileRefreshable, NoReuse
<1>. QED BY <1>c1, <1>c4, <1>c5, <1>c6, <1>c7, <1>c8, <1>c9, <1>c10, <1>c11 DEF IInv

\* What an approval changes, and its types.
LEMMA ApproveType ==
  ASSUME TypeOK, NEW x \in Cli, NEW l \in Locals, Approve(x, l)
  PROVE /\ pc' \in [Actor -> PCs] /\ loc' \in [Actor -> Locals]
        /\ issued' = issued + 1 /\ issued' \in Gen /\ live' \subseteq Gen
        /\ root' \in [Gen -> Gen \cup {None}]
        /\ \E r : /\ GoTo(x, "acquire", r) /\ r.ans = issued + 1
                  /\ r.fb = l.fb /\ r.ub = l.ub /\ r.op = l.op
<1>. DEFINE r == [l EXCEPT !.ans = issued + 1]
<1>1. issued + 1 \in Gen /\ Issue(issued + 1) BY DEF Approve, Issue, TypeOK, Gen
<1>2. r \in Locals /\ r.ans = issued + 1 /\ r.fb = l.fb /\ r.ub = l.ub /\ r.op = l.op
  BY <1>1 DEF Locals
<1>3. GoTo(x, "acquire", r) BY DEF Approve
<1>. HIDE DEF r
<1>4. x \in Actor /\ "acquire" \in PCs BY PCsAll DEF Actor
<1>5. pc' \in [Actor -> PCs] /\ loc' \in [Actor -> Locals]
  BY <1>2, <1>3, <1>4, GoToType
<1>6. issued' = issued + 1 /\ root' \in [Gen -> Gen \cup {None}] BY <1>1, IssueType
<1>7. live' \subseteq Gen BY <1>1 DEF Approve, TypeOK
<1>. QED BY <1>1, <1>2, <1>3, <1>5, <1>6, <1>7

\* A login preserves the invariant.
LEMMA LoginStep ==
  ASSUME IInv, NEW x \in Cli, NEW q \in Profile, Login(x, q) PROVE IInv'
<1>. DEFINE l == [Rest EXCEPT !.op = "login", !.q = q]
<1>1. TypeOK /\ x \in Actor BY DEF IInv, Actor
<1>2. l \in Locals /\ l.op = "login" /\ l.fb = None /\ l.ub = None
  BY RestType, RestFields DEF Locals, AllCommands
<1>3. /\ pc[x] = "idle" /\ Approve(x, l)
      /\ UNCHANGED <<file, tomb, holder, mem, used, alock, void, orphans, stale, history>>
  BY DEF Login
<1>. HIDE DEF l
<1>4. TypeOK' BY <1>1, <1>2, <1>3, ApproveType DEF TypeOK, history
<1>5. PICK r : /\ GoTo(x, "acquire", r) /\ r.ans = issued + 1
               /\ r.fb = l.fb /\ r.ub = l.ub /\ r.op = l.op
  BY <1>1, <1>2, <1>3, ApproveType
<1>6. issued' = issued + 1 /\ issued' \in Gen BY <1>1, <1>2, <1>3, ApproveType
<1>. QED BY <1>2, <1>3, <1>4, <1>5, <1>6, ApproveStep DEF history

\* The answer to a consent prompt preserves the invariant.
LEMMA ConsentStep ==
  ASSUME IInv, NEW x \in Cli, Consent(x) PROVE IInv'
<1>. DEFINE l == [loc[x] EXCEPT !.op = "consent"]
<1>1. TypeOK /\ x \in Actor BY DEF IInv, Actor
<1>2. /\ l \in Locals /\ l.op = "consent" /\ l.fb = loc[x].fb /\ l.ub = loc[x].ub
      /\ loc[x].ub = None
  BY <1>1 DEF TypeOK, Locals, IInv, OpsInPlace
<1>3. /\ pc[x] = "consent"
      /\ UNCHANGED <<file, tomb, holder, mem, used, void, orphans, stale, history>>
  BY DEF Consent
<1>4. CASE Return(x) /\ UNCHANGED <<issued, live, root>> BY <1>4, ConsentDenied
<1>5. CASE Approve(x, l) /\ UNCHANGED alock
  <2>. HIDE DEF l
  <2>1. TypeOK' BY <1>1, <1>2, <1>3, <1>5, ApproveType DEF TypeOK, history
  <2>2. PICK r : /\ GoTo(x, "acquire", r) /\ r.ans = issued + 1
                 /\ r.fb = l.fb /\ r.ub = l.ub /\ r.op = l.op
    BY <1>1, <1>2, <1>5, ApproveType
  <2>3. issued' = issued + 1 /\ issued' \in Gen BY <1>1, <1>2, <1>5, ApproveType
  <2>. QED BY <1>2, <1>3, <1>5, <2>1, <2>2, <2>3, ApproveStep DEF history
<1>. QED BY <1>4, <1>5 DEF Consent

\* The invariant holds initially.
LEMMA IInvInit == Init => IInv
<1>. SUFFICES ASSUME Init PROVE IInv OBVIOUS
<1>1. /\ \A q \in Profile : file.tok[q] = IF q = Default THEN 1 ELSE None
      /\ file.default = Default
      /\ tomb = {} /\ holder = Free
      /\ \A p \in Proc : mem[p] = None /\ used[p] = None
      /\ \A x \in Actor : pc[x] = "idle" /\ loc[x] = Rest
      /\ issued = 1 /\ orphans = {} /\ spent = {} /\ reused = {} /\ faulted = {}
  BY DEF Init, Lock!Init
<1>2. 1 \in Gen /\ None # 1 /\ None = 0 BY DEF Gen, None
<1>t. TypeOK
  <2>1. file \in File BY <1>2 DEF Init, File
  <2>2. /\ mem \in [Proc -> Gen \cup {None}] /\ used \in [Proc -> Gen \cup {None}]
        /\ alock \in [Proc -> Task \cup {NoOne}]
        /\ pc \in [Actor -> PCs] /\ loc \in [Actor -> Locals]
    BY RestType, PCsAll DEF Init
  <2>3. issued \in Gen /\ live \subseteq Gen /\ root \in [Gen -> Gen \cup {None}]
    BY <1>2 DEF Init
  <2>. QED BY <1>1, <2>1, <2>2, <2>3 DEF Init, TypeOK
<1>c1. LockHeld /\ LoadedIsCurrent /\ OneRefresher
  BY <1>1 DEF LockHeld, LoadedIsCurrent, OneRefresher, Actor
<1>c2. OpsInPlace /\ KnownProfile
  BY <1>1, RestFields, Tokens DEF OpsInPlace, KnownProfile, Refreshes, Actor
<1>c3. NotNewer BY <1>1, <1>2, RestFields DEF NotNewer
<1>c4. FileDistinct BY <1>1, <1>2 DEF FileDistinct
<1>c5. AnswerFresh BY <1>1, RestFields, Tokens DEF AnswerFresh
<1>c6. UnsavedMem /\ UnsavedLoc /\ FileRefreshable /\ NoReuse
  BY <1>1 DEF UnsavedMem, UnsavedLoc, FileRefreshable, NoReuse, Actor
<1>. QED BY <1>t, <1>c1, <1>c2, <1>c3, <1>c4, <1>c5, <1>c6 DEF IInv

\* Every step preserves the invariant.
LEMMA IInvStep == IInv /\ [Next]_vars => IInv'
<1>. SUFFICES ASSUME IInv, [Next]_vars PROVE IInv' OBVIOUS
<1>1. ASSUME NEW x \in Actor, Step(x) PROVE IInv'
  BY <1>1, AcquireStep, GiveUpStep, RefreshLoggedOutStep, RefreshAdoptStep,
     RefreshPostStep, SaveRefreshedStep, RefreshRefusedStep, RefreshNotSavedStep,
     ServerExchangesStep, ServerRefusesStep, RefreshLostStep DEF Step
<1>2. ASSUME NEW t \in Task, BeginRequest(t) \/ TakeLock(t) \/ TaskStep(t) PROVE IInv'
  BY <1>2, BeginRequestStep, TakeLockStep, AcceptedStep, UnauthorizedStep DEF TaskStep
<1>3. ASSUME NEW x \in Cli, CliStart(x) PROVE IInv'
  BY <1>3, LogoutAllStep, LoginStep, LogoutStep, RefreshCommandStep, UseStep DEF CliStart
<1>4. ASSUME NEW x \in Cli, CliStep(x) \/ CrashCli(x) PROVE IInv'
  <2>1. x \in Actor BY DEF Actor
  <2>. QED
    BY <1>4, <2>1, ConsentRequiredStep, ConsentStep, UpdateProfileStep,
       RecordLogoutStep, RemoveProfileStep, SetDefaultStep, RevokeStep, CrashCliStep
    DEF CliStep
<1>5. ASSUME NEW p \in Proc,
             StartProc(p) \/ ReloadState(p) \/ ExitProc(p) \/ CrashProc(p)
      PROVE IInv'
  BY <1>5, StartProcStep, ReloadStateStep, ExitProcStep, CrashProcStep
<1>6. CASE (\E g \in Gen : Age(g) \/ Void(g)) \/ Retire \/ UNCHANGED vars
  BY <1>6, AgeVoidRetireStep
<1>7. CASE ServerOrphan BY <1>7, ServerOrphanStep
<1>. QED BY <1>1, <1>2, <1>3, <1>4, <1>5, <1>6, <1>7 DEF Next

\* The strengthened invariant holds for every number of processes, requests and
\* commands, and every set of profiles and faults.
THEOREM Inductive == Spec => []IInv
BY IInvInit, IInvStep, PTL DEF Spec

\* The state of the store keeps its type.
THEOREM TypeCorrect == Spec => []TypeOK
<1>1. IInv => TypeOK BY DEF IInv
<1>. QED BY <1>1, Inductive, PTL

\* No refresh token is sent again after the server exchanged it, unless its own
\* exchange was hit by a fault (KaguraOAuth, refresh_profile_locked).
THEOREM OneExchange == Spec => []NoReuse
<1>1. IInv => NoReuse BY DEF IInv
<1>. QED BY <1>1, Inductive, PTL

\* The refresh token on file works, except while its exchange is under way under
\* the lock and after an exchange that was hit by a fault.
THEOREM Refreshable == Spec => []FileRefreshable
<1>1. IInv => FileRefreshable BY DEF IInv
<1>. QED BY <1>1, Inductive, PTL
-----------------------------------------------------------------------------
\* Which login a token descends from.

\* A token response has a login that is no newer than itself, and only logins
\* that were on file are logged out.
Roots ==
  /\ \A g \in Gen : IF g <= issued THEN root[g] \in 1 .. g ELSE root[g] = None
  /\ \A e \in ended : e <= issued

\* Two profiles never come from the same login.
OneLogin ==
  \A q, r \in Profile : file.tok[q] # None /\ file.tok[r] # None /\ q # r =>
    root[file.tok[q]] # root[file.tok[r]]

\* The response of a login that waits to be saved has no successor and was
\* never logged out.
Logins == {"login", "consent"}
NewLogin ==
  \A x \in Actor : loc[x].op \in Logins =>
    /\ root[loc[x].ans] = loc[x].ans /\ loc[x].ans \notin ended
    /\ \A g \in Gen : root[g] = loc[x].ans => g = loc[x].ans

\* A refresh under way continues the login on file, and its answer is newer.
SameLogin ==
  \A x \in Actor : pc[x] = "post" =>
    LET old == file.tok[ProfileOf(x)] IN
    /\ old # None /\ root[loc[x].sel] = root[old] /\ loc[x].sel >= old
    /\ loc[x].ans \in Gen => root[loc[x].ans] = root[old] /\ loc[x].ans > loc[x].sel

\* So does a credential that could not be saved.
UnsavedLogin ==
  /\ \A p \in Proc : used[p] # None => root[mem[p]] = root[used[p]] /\ mem[p] > used[p]
  /\ \A t \in Task : pc[t] \in {"acquire", "locked"} /\ loc[t].ub # None =>
       root[loc[t].fb] = root[loc[t].ub] /\ loc[t].fb > loc[t].ub

Lineage == Roots /\ OneLogin /\ NewLogin /\ SameLogin /\ UnsavedLogin /\ LoggedOutStaysOut

\* What a command that waits for consent remembers was on file, so no answer
\* brings it back: a change of the profile is for good.
ConsentInv ==
  \A x \in Cli : AwaitsConsent(x) =>
    /\ loc[x].sel \in 1 .. issued
    /\ \A y \in Actor : loc[y].ans # loc[x].sel
    /\ x \in touched => file.tok[loc[x].q] # loc[x].sel

\* A task refreshes with what its process knew to be used up, or the process
\* learnt better meanwhile; and a token that was rejected is, once the forced
\* refresh is over, neither in memory nor on file nor in an answer.
RetryInv ==
  \A t \in Task :
    LET p == TaskProc[t] IN
    /\ loc[t].rej <= issued
    /\ \A y \in Actor : loc[y].ans \in Gen => loc[y].ans # loc[t].rej
    /\ loc[t].op = "force" \/ loc[t].again => loc[t].rej \in Gen
    /\ loc[t].again => mem[p] # loc[t].rej /\ file.tok[ProcProfile[p]] # loc[t].rej
    /\ pc[t] = "sent" /\ loc[t].again => loc[t].tok # loc[t].rej
    /\ pc[t] \in {"acquire", "locked", "post"} => used[p] \in {None, loc[t].ub}
    /\ pc[t] = "post" => loc[t].sel # loc[t].ub
-----------------------------------------------------------------------------
\* What a step can do to the file, the logins and an actor.

\* A new token response starts a login or continues one, but none of a login
\* that waits to be saved.
ServerEvolves ==
  \/ UNCHANGED <<issued, root>>
  \/ /\ issued + 1 \in Gen /\ issued' = issued + 1
     /\ \A g \in Gen : g # issued + 1 => root'[g] = root[g]
     /\ \/ root'[issued + 1] = issued + 1
        \/ \E g \in Gen : /\ g <= issued /\ root'[issued + 1] = root[g]
                          /\ \A y \in Actor : loc[y].op \in Logins => loc[y].ans # g

\* The file is written with the lock held, so nobody posts meanwhile, and a
\* consent is saved over what the command remembers.
FileEvolves ==
  \/ file' = file
  \/ \E q \in Profile : file.tok[q] # None /\ file' = [file EXCEPT !.default = q]
  \/ /\ \A y \in Actor : pc'[y] # "post"
     /\ \/ file' = EmptyFile
        \/ \E q \in Profile : file' \in DeleteProfile(file, q)
        \/ \E x \in Actor :
             /\ loc[x].ans \in Gen
             /\ pc[x] = "post" \/ loc[x].op \in Logins
             /\ loc[x].op = "consent" => file.tok[loc[x].q] = loc[x].sel
             /\ file' = SetProfile(file, ProfileOf(x), loc[x].ans)

\* Only a login whose profile is removed is logged out; who waits for consent
\* is touched by a change of the profile.
HistoryEvolves ==
  /\ \A e \in ended' : \/ e \in ended
                       \/ \E q \in Profile : /\ file.tok[q] # None /\ e = root[file.tok[q]]
                                             /\ file'.tok[q] = None
  /\ \A x \in touched' : \/ x \in touched
                         \/ /\ loc'[x] = loc[x]
                            /\ \/ file'.tok[loc[x].q] = None
                               \/ \E y \in Actor : file'.tok[loc[x].q] = loc[y].ans

\* A process keeps its copy, ends, takes what is on file, or keeps the only
\* copy of a response that could not be saved.
ProcEvolves(p) ==
  \/ mem'[p] = mem[p] /\ used'[p] = used[p]
  \/ mem'[p] = None /\ used'[p] = None
  \/ mem'[p] = file'.tok[ProcProfile[p]] /\ used'[p] = None
  \/ \E t \in Task : /\ TaskProc[t] = p /\ pc[t] = "post" /\ pc'[t] = "idle"
                     /\ loc[t].ans \in Gen /\ mem'[p] = loc[t].ans
                     /\ used'[p] = file.tok[ProcProfile[p]] /\ file' = file

\* An answer is the next token response.
AnswerEvolves(y) ==
  /\ loc'[y].ans \in Gen /\ loc'[y].ans # loc[y].ans =>
       issued' = issued + 1 /\ loc'[y].ans = issued + 1
  /\ loc'[y].op \in Logins =>
       \/ loc[y].op \in Logins /\ loc'[y].ans = loc[y].ans
       \/ /\ issued' = issued + 1 /\ loc'[y].ans = issued + 1
          /\ root'[issued + 1] = issued + 1

\* A refresh starts from the file's token, or from the caller's copy when the
\* caller knows that one to be used up.
PostEvolves(y) ==
  pc'[y] = "post" =>
    LET old == file.tok[ProfileOf(y)] IN
    /\ loc'[y].q = loc[y].q /\ loc'[y].ub = loc[y].ub
    /\ \/ pc[y] = "post" /\ loc'[y].sel = loc[y].sel
       \/ /\ pc[y] = "locked" /\ old # None
          /\ \/ loc'[y].sel = old /\ loc[y].ub # old
             \/ y \in Task /\ loc'[y].sel = loc[y].fb /\ loc[y].ub = old
    /\ loc'[y].ans \in Gen =>
         \/ pc[y] = "post" /\ loc'[y].ans = loc[y].ans
         \/ /\ issued' = issued + 1 /\ loc'[y].ans = issued + 1
            /\ root'[issued + 1] = root[loc'[y].sel]

\* A task captures what its process has when it takes the lock.
CopyEvolves(t) ==
  LET p == TaskProc[t] IN
  /\ pc'[t] \in {"acquire", "locked"} =>
       \/ pc[t] \in {"acquire", "locked"} /\ loc'[t].fb = loc[t].fb /\ loc'[t].ub = loc[t].ub
       \/ loc'[t].fb = mem[p] /\ loc'[t].ub = used[p] /\ used'[p] = used[p]

\* A 401 captures the token in memory, and a retry comes after the forced
\* refresh put another one there and on file.
RetryEvolves(t) ==
  LET p == TaskProc[t]
      bad == loc'[t].rej IN
  /\ bad \in {None, loc[t].rej, mem[p]}
  /\ loc'[t].op = "force" \/ loc'[t].again =>
       \/ bad = loc[t].rej /\ (loc[t].op = "force" \/ loc[t].again)
       \/ bad = mem[p] /\ bad # None
  /\ loc'[t].again =>
       /\ bad = loc[t].rej
       /\ \/ loc[t].again
          \/ mem'[p] # bad /\ file'.tok[ProcProfile[p]] # bad
  /\ pc'[t] = "sent" /\ loc'[t].again =>
       \/ pc[t] = "sent" /\ loc'[t].tok = loc[t].tok /\ loc[t].again
       \/ loc'[t].tok = mem'[p]

\* Who asks for consent remembers what is on file.
ConsentEvolves(x) ==
  pc'[x] = "consent" \/ loc'[x].op = "consent" =>
    \/ AwaitsConsent(x) /\ loc'[x].sel = loc[x].sel /\ loc'[x].q = loc[x].q
    \/ /\ pc[x] = "post" /\ file' = file /\ x \notin touched'
       /\ loc'[x].sel = file.tok[ProfileOf(x)] /\ loc'[x].q = loc[x].q

ActorEvolves(y) ==
  /\ AnswerEvolves(y) /\ PostEvolves(y)
  /\ y \in Task => CopyEvolves(y) /\ RetryEvolves(y)
  /\ y \in Cli => ConsentEvolves(y)

Evolves ==
  /\ ServerEvolves /\ FileEvolves /\ HistoryEvolves
  /\ \A p \in Proc : ProcEvolves(p)
  /\ \A y \in Actor : ActorEvolves(y)

\* Tokens, types and numbers, in one place.
LEMMA TokenFacts ==
  ASSUME IInv
  PROVE /\ TypeOK /\ issued \in Gen /\ issued \in Nat /\ Gen \subseteq Nat \ {0}
        /\ None = 0 /\ None \notin Gen /\ (\A g \in Gen \cup {None} : g \in Nat)
        /\ file \in File
        /\ \A q \in Profile : /\ file.tok[q] \in Gen \cup {None} /\ file.tok[q] <= issued
                              /\ file.tok[q] \in Nat
        /\ \A p \in Proc : mem[p] \in Gen \cup {None} /\ mem[p] <= issued /\ used[p] \in Gen \cup {None}
<1>1. TypeOK /\ NotNewer BY DEF IInv
<1>2. Gen \subseteq Nat \ {0} /\ None = 0 /\ None \notin Gen BY Tokens
<1>3. issued \in Gen /\ file \in File BY <1>1 DEF TypeOK
<1>4. \A q \in Profile : file.tok[q] \in Gen \cup {None} BY <1>3 DEF File
<1>5. \A p \in Proc : mem[p] \in Gen \cup {None} /\ used[p] \in Gen \cup {None} BY <1>1 DEF TypeOK
<1>6. /\ \A q \in Profile : file.tok[q] <= issued
      /\ \A p \in Proc : mem[p] <= issued
  BY <1>1 DEF NotNewer
<1>7. \A g \in Gen \cup {None} : g \in Nat BY <1>2
<1>8. \A q \in Profile : file.tok[q] \in Nat BY <1>4, <1>7
<1>9. issued \in Nat BY <1>2, <1>3
<1>. QED BY <1>1, <1>2, <1>3, <1>4, <1>5, <1>6, <1>7, <1>8, <1>9

\* And what an actor holds.
LEMMA ActorFacts ==
  ASSUME IInv, NEW y \in Actor
  PROVE /\ loc[y] \in Locals /\ ProfileOf(y) \in Profile
        /\ loc[y].ans \in Gen => /\ loc[y].ans <= issued
                                 /\ \A q \in Profile : file.tok[q] # loc[y].ans
        /\ pc[y] = "post" => loc[y].sel \in Gen /\ loc[y].sel <= issued
        /\ loc[y].fb \in Gen \cup {None} /\ loc[y].fb <= issued
        /\ loc[y].ub \in Gen \cup {None} /\ loc[y].rej \in Gen \cup {None}
        /\ loc[y].op \in Logins => loc[y].ans \in Gen
<1>1. TypeOK /\ NotNewer /\ OpsInPlace /\ AnswerFresh BY DEF IInv
<1>. QED BY <1>1, ProfileType, LocalsType DEF NotNewer, OpsInPlace, Logins, AnswerFresh

\* What the file holds after a step.
LEMMA FileEvolvesTo ==
  ASSUME IInv, FileEvolves
  PROVE \/ \A q \in Profile : file'.tok[q] = file.tok[q]
        \/ /\ \A y \in Actor : pc'[y] # "post"
           /\ \/ \A q \in Profile : file'.tok[q] \in {None, file.tok[q]}
              \/ \E x \in Actor :
                   /\ loc[x].ans \in Gen
                   /\ pc[x] = "post" \/ loc[x].op \in Logins
                   /\ loc[x].op = "consent" => file.tok[loc[x].q] = loc[x].sel
                   /\ \A q \in Profile : file'.tok[q] = IF q = ProfileOf(x) THEN loc[x].ans ELSE file.tok[q]
<1>1. file \in File /\ \A x \in Actor : ProfileOf(x) \in Profile BY TokenFacts, ActorFacts
<1>2. ASSUME NEW q \in Profile, file' = [file EXCEPT !.default = q]
      PROVE \A r \in Profile : file'.tok[r] = file.tok[r]
  BY <1>1, <1>2 DEF File
<1>3. ASSUME NEW q \in Profile, file' \in DeleteProfile(file, q)
      PROVE \A r \in Profile : file'.tok[r] \in {None, file.tok[r]}
  BY <1>1, <1>3, DeleteProfileType
<1>4. ASSUME NEW x \in Actor, file' = SetProfile(file, ProfileOf(x), loc[x].ans)
      PROVE \A q \in Profile : file'.tok[q] = IF q = ProfileOf(x) THEN loc[x].ans ELSE file.tok[q]
  BY <1>1, <1>4, SetProfileEffect
<1>5. CASE file' = file BY <1>5
<1>6. CASE \E q \in Profile : file.tok[q] # None /\ file' = [file EXCEPT !.default = q]
  BY <1>2, <1>6
<1>7. CASE file' = EmptyFile /\ \A y \in Actor : pc'[y] # "post" BY <1>7, EmptyFileType
<1>8. CASE (\E q \in Profile : file' \in DeleteProfile(file, q)) /\ \A y \in Actor : pc'[y] # "post"
  BY <1>3, <1>8
<1>9. CASE /\ \A y \in Actor : pc'[y] # "post"
           /\ \E x \in Actor :
                /\ loc[x].ans \in Gen
                /\ pc[x] = "post" \/ loc[x].op \in Logins
                /\ loc[x].op = "consent" => file.tok[loc[x].q] = loc[x].sel
                /\ file' = SetProfile(file, ProfileOf(x), loc[x].ans)
  BY <1>4, <1>9
<1>. QED BY <1>5, <1>6, <1>7, <1>8, <1>9 DEF FileEvolves

\* The logins of the tokens there are stay what they were.
LEMMA RootsKept ==
  ASSUME IInv, Roots, ServerEvolves
  PROVE /\ issued <= issued' /\ issued' \in Nat
        /\ \A g \in Gen : g <= issued => root'[g] = root[g] /\ root[g] \in 1 .. g
        /\ \A g \in Gen : IF g <= issued' THEN root'[g] \in 1 .. g ELSE root'[g] = None
<1>f. issued \in Gen /\ issued \in Nat /\ Gen \subseteq Nat \ {0} BY TokenFacts
<1>1. \A g \in Gen : g <= issued => root[g] \in 1 .. g BY DEF Roots
<1>2. CASE UNCHANGED <<issued, root>> BY <1>f, <1>2 DEF Roots
<1>3. CASE /\ issued + 1 \in Gen /\ issued' = issued + 1
           /\ \A g \in Gen : g # issued + 1 => root'[g] = root[g]
           /\ \/ root'[issued + 1] = issued + 1
              \/ \E g \in Gen : g <= issued /\ root'[issued + 1] = root[g]
  <2>1. root'[issued + 1] \in 1 .. (issued + 1) BY <1>f, <1>1, <1>3
  <2>2. \A g \in Gen : g # issued + 1 => (g <= issued <=> g <= issued + 1) BY <1>f
  <2>3. \A g \in Gen : g <= issued => g # issued + 1 BY <1>f
  <2>. QED BY <1>f, <1>1, <1>3, <2>1, <2>2, <2>3 DEF Roots
<1>. QED BY <1>2, <1>3 DEF ServerEvolves

\* The token responses keep their logins, and only what was on file is logged out.
LEMMA RootsStep ==
  ASSUME IInv, Roots, Evolves PROVE Roots'
<1>1. ServerEvolves /\ HistoryEvolves BY DEF Evolves
<1>2. issued <= issued' /\ issued' \in Nat /\ issued \in Nat BY <1>1, RootsKept, TokenFacts
<1>3. \A e \in ended' : e <= issued'
  <2>1. SUFFICES ASSUME NEW e \in ended' PROVE e <= issued' OBVIOUS
  <2>2. CASE e \in ended
    <3>1. ended \subseteq Gen \cup {None} /\ Gen \subseteq Nat /\ None = 0 BY TokenFacts DEF TypeOK
    <3>2. e <= issued /\ e \in Nat BY <2>2, <3>1 DEF Roots
    <3>. QED BY <1>2, <3>2
  <2>3. CASE \E q \in Profile : file.tok[q] # None /\ e = root[file.tok[q]]
    <3>1. PICK q \in Profile : file.tok[q] # None /\ e = root[file.tok[q]] BY <2>3
    <3>2. file.tok[q] \in Gen /\ file.tok[q] <= issued /\ file.tok[q] \in Nat BY <3>1, TokenFacts
    <3>3. e \in 1 .. file.tok[q] BY <3>1, <3>2, <1>1, RootsKept
    <3>. QED BY <3>2, <3>3, <1>2
  <2>. QED BY <1>1, <2>2, <2>3 DEF HistoryEvolves
<1>. QED BY <1>1, <1>3, RootsKept DEF Roots

\* Before a step: the login of the token on file, and of the one that is saved.
LEMMA SavedLogin ==
  ASSUME IInv, Lineage, NEW x \in Actor, loc[x].ans \in Gen, pc[x] = "post" \/ loc[x].op \in Logins
  PROVE /\ root[loc[x].ans] \notin ended
        /\ \A r \in Profile : r # ProfileOf(x) /\ file.tok[r] # None => root[file.tok[r]] # root[loc[x].ans]
<1>. DEFINE q == ProfileOf(x)
<1>i. OneLogin /\ NewLogin /\ SameLogin /\ LoggedOutStaysOut BY DEF Lineage
<1>1. q \in Profile BY ActorFacts
<1>2. CASE pc[x] = "post"
  <2>1. file.tok[q] # None /\ root[loc[x].ans] = root[file.tok[q]] BY <1>2, <1>i DEF SameLogin
  <2>. QED BY <1>1, <2>1, <1>i DEF OneLogin, LoggedOutStaysOut
<1>3. CASE loc[x].op \in Logins
  <2>1. /\ root[loc[x].ans] = loc[x].ans /\ loc[x].ans \notin ended
        /\ \A g \in Gen : root[g] = loc[x].ans => g = loc[x].ans
    BY <1>3, <1>i DEF NewLogin
  <2>2. \A r \in Profile : file.tok[r] # None => file.tok[r] \in Gen /\ file.tok[r] # loc[x].ans
    BY TokenFacts, ActorFacts
  <2>. QED BY <2>1, <2>2
<1>. QED BY <1>2, <1>3

\* The tokens on file after a step have the login they had, or that of the
\* answer saved.
LEMMA FileRoots ==
  ASSUME IInv, Lineage, Evolves
  PROVE /\ \A q \in Profile : file.tok[q] # None => root'[file.tok[q]] = root[file.tok[q]]
        /\ \A x \in Actor : loc[x].ans \in Gen => root'[loc[x].ans] = root[loc[x].ans]
<1>1. Roots /\ ServerEvolves BY DEF Lineage, Evolves
<1>2. \A q \in Profile : file.tok[q] # None => file.tok[q] \in Gen /\ file.tok[q] <= issued BY TokenFacts
<1>3. \A x \in Actor : loc[x].ans \in Gen => loc[x].ans <= issued BY ActorFacts
<1>. QED BY <1>1, <1>2, <1>3, RootsKept

\* Two profiles still come from two logins.
LEMMA OneLoginStep ==
  ASSUME IInv, Lineage, Evolves PROVE OneLogin'
<1>1. OneLogin /\ FileEvolves BY DEF Lineage, Evolves
<1>2. \A q \in Profile : file.tok[q] # None => root'[file.tok[q]] = root[file.tok[q]] BY FileRoots
<1>3. CASE \A q \in Profile : file'.tok[q] \in {None, file.tok[q]}
  BY <1>1, <1>2, <1>3 DEF OneLogin
<1>4. CASE \E x \in Actor :
             /\ loc[x].ans \in Gen
             /\ pc[x] = "post" \/ loc[x].op \in Logins
             /\ \A q \in Profile : file'.tok[q] = IF q = ProfileOf(x) THEN loc[x].ans ELSE file.tok[q]
  <2>1. PICK x \in Actor :
             /\ loc[x].ans \in Gen
             /\ pc[x] = "post" \/ loc[x].op \in Logins
             /\ \A q \in Profile : file'.tok[q] = IF q = ProfileOf(x) THEN loc[x].ans ELSE file.tok[q]
    BY <1>4
  <2>2. root'[loc[x].ans] = root[loc[x].ans] BY <2>1, FileRoots
  <2>3. \A r \in Profile : r # ProfileOf(x) /\ file.tok[r] # None => root[file.tok[r]] # root[loc[x].ans]
    BY <2>1, SavedLogin
  <2>. QED BY <1>1, <1>2, <2>1, <2>2, <2>3 DEF OneLogin
<1>. QED BY <1>1, <1>3, <1>4, FileEvolvesTo

\* No login that was logged out is on file after a step.
LEMMA LoggedOutStep ==
  ASSUME IInv, Lineage, Evolves PROVE LoggedOutStaysOut'
<1>i. LoggedOutStaysOut /\ OneLogin /\ FileEvolves /\ HistoryEvolves BY DEF Lineage, Evolves
<1>1. SUFFICES ASSUME NEW q \in Profile, file'.tok[q] # None PROVE root'[file'.tok[q]] \notin ended'
  BY DEF LoggedOutStaysOut
<1>2. \A r \in Profile : file.tok[r] # None => root'[file.tok[r]] = root[file.tok[r]] BY FileRoots
<1>3. CASE file'.tok[q] = file.tok[q]
  <2>1. root'[file'.tok[q]] = root[file.tok[q]] /\ root[file.tok[q]] \notin ended
    BY <1>1, <1>2, <1>3, <1>i DEF LoggedOutStaysOut
  <2>2. ASSUME NEW r \in Profile, file.tok[r] # None, file'.tok[r] = None
        PROVE root[file.tok[r]] # root[file.tok[q]]
    BY <2>2, <1>1, <1>3, <1>i DEF OneLogin
  <2>. QED BY <2>1, <2>2, <1>i DEF HistoryEvolves
<1>4. CASE file'.tok[q] # file.tok[q]
  <2>1. PICK x \in Actor :
             /\ loc[x].ans \in Gen
             /\ pc[x] = "post" \/ loc[x].op \in Logins
             /\ \A r \in Profile : file'.tok[r] = IF r = ProfileOf(x) THEN loc[x].ans ELSE file.tok[r]
    BY <1>1, <1>4, <1>i, FileEvolvesTo
  <2>2. file'.tok[q] = loc[x].ans BY <1>4, <2>1
  <2>3. root'[loc[x].ans] = root[loc[x].ans] BY <2>1, FileRoots
  <2>4. root[loc[x].ans] \notin ended BY <2>1, SavedLogin
  <2>5. \A r \in Profile : file.tok[r] # None => file'.tok[r] # None BY <2>1, TokenFacts
  <2>. QED BY <2>2, <2>3, <2>4, <2>5, <1>i DEF HistoryEvolves
<1>. QED BY <1>3, <1>4

\* A login that waits to be saved has no successor.
LEMMA NewLoginStep ==
  ASSUME IInv, Lineage, Evolves PROVE NewLogin'
<1>i. /\ NewLogin /\ Roots /\ ServerEvolves /\ HistoryEvolves
      /\ \A y \in Actor : AnswerEvolves(y)
  BY DEF Lineage, Evolves, ActorEvolves
<1>1. SUFFICES ASSUME NEW x \in Actor, loc'[x].op \in Logins
               PROVE /\ root'[loc'[x].ans] = loc'[x].ans /\ loc'[x].ans \notin ended'
                     /\ \A g \in Gen : root'[g] = loc'[x].ans => g = loc'[x].ans
  BY DEF NewLogin
<1>2. /\ issued \in Nat /\ Gen \subseteq Nat \ {0} /\ issued \in Gen /\ None = 0
      /\ \A q \in Profile : file.tok[q] # None => file.tok[q] \in Gen /\ file.tok[q] <= issued
  BY TokenFacts
<1>3. /\ \A g \in Gen : g <= issued => root'[g] = root[g] /\ root[g] \in 1 .. g
      /\ \A g \in Gen : IF g <= issued' THEN root'[g] \in 1 .. g ELSE root'[g] = None
  BY <1>i, RootsKept
<1>4. CASE loc[x].op \in Logins /\ loc'[x].ans = loc[x].ans
  <2>. DEFINE a == loc[x].ans
  <2>1. a \in Gen /\ a <= issued /\ \A q \in Profile : file.tok[q] # a BY <1>4, ActorFacts
  <2>2. root[a] = a /\ a \notin ended /\ \A g \in Gen : root[g] = a => g = a
    BY <1>4, <1>i DEF NewLogin
  <2>3. a \notin ended'
    <3>1. ASSUME NEW q \in Profile, file.tok[q] # None PROVE a # root[file.tok[q]]
      BY <3>1, <2>1, <2>2, <1>2
    <3>. QED BY <2>2, <3>1, <1>i DEF HistoryEvolves
  <2>4. ASSUME NEW g \in Gen, root'[g] = a PROVE g = a
    <3>1. CASE g <= issued BY <3>1, <2>2, <2>4, <1>3
    <3>2. CASE ~(g <= issued) /\ g <= issued'
      <4>1. g = issued + 1 /\ issued' = issued + 1 BY <3>2, <1>2, <1>i DEF ServerEvolves
      <4>2. root'[g] # issued + 1 BY <2>1, <2>4, <1>2
      <4>3. PICK h \in Gen : root'[g] = root[h] /\ \A y \in Actor : loc[y].op \in Logins => loc[y].ans # h
        BY <4>1, <4>2, <1>2, <1>i DEF ServerEvolves
      <4>. QED BY <4>3, <2>2, <2>4, <1>4
    <3>3. CASE ~(g <= issued') BY <3>3, <2>4, <2>1, <1>2, <1>3
    <3>. QED BY <3>1, <3>2, <3>3
  <2>. QED BY <1>3, <1>4, <2>1, <2>2, <2>3, <2>4
<1>5. CASE /\ issued' = issued + 1 /\ loc'[x].ans = issued + 1
           /\ root'[issued + 1] = issued + 1
  <2>1. issued + 1 \notin ended'
    <3>1. ASSUME NEW q \in Profile, file.tok[q] # None PROVE issued + 1 # root[file.tok[q]]
      <4>1. root[file.tok[q]] \in 1 .. file.tok[q] BY <3>1, <1>2, <1>3
      <4>2. file.tok[q] \in Nat /\ file.tok[q] <= issued BY <3>1, <1>2
      <4>. QED BY <4>1, <4>2, <1>2
    <3>2. issued + 1 \notin ended BY <1>2, <1>i DEF Roots
    <3>. QED BY <3>1, <3>2, <1>i DEF HistoryEvolves
  <2>2. ASSUME NEW g \in Gen, root'[g] = issued + 1 PROVE g = issued + 1
    <3>1. g \in Nat BY <1>2
    <3>2. g <= issued' /\ root'[g] \in 1 .. g BY <2>2, <1>2, <1>3
    <3>. QED BY <3>1, <3>2, <2>2, <1>2, <1>5
  <2>. QED BY <1>5, <2>1, <2>2
<1>. QED BY <1>1, <1>4, <1>5, <1>i DEF AnswerEvolves

\* A refresh under way continues the login on file.
LEMMA SameLoginStep ==
  ASSUME IInv, Lineage, Evolves PROVE SameLogin'
<1>i. /\ SameLogin /\ UnsavedLogin /\ Roots /\ ServerEvolves /\ FileEvolves
      /\ \A y \in Actor : PostEvolves(y)
  BY DEF Lineage, Evolves, ActorEvolves
<1>1. SUFFICES ASSUME NEW x \in Actor, pc'[x] = "post"
               PROVE LET old == file'.tok[ProfileOf(x)'] IN
                     /\ old # None /\ root'[loc'[x].sel] = root'[old] /\ loc'[x].sel >= old
                     /\ loc'[x].ans \in Gen => root'[loc'[x].ans] = root'[old] /\ loc'[x].ans > loc'[x].sel
  BY DEF SameLogin
<1>. DEFINE old == file.tok[ProfileOf(x)]
            sel == loc'[x].sel
<1>2. ProfileOf(x)' = ProfileOf(x) /\ ProfileOf(x) \in Profile
  BY <1>1, <1>i, ActorFacts DEF PostEvolves, ProfileOf
<1>3. file'.tok[ProfileOf(x)'] = old BY <1>1, <1>2, <1>i, FileEvolvesTo
<1>4. \A g \in Gen : g <= issued => root'[g] = root[g] BY <1>i, RootsKept
<1>5. /\ issued \in Nat /\ Gen \subseteq Nat \ {0} /\ None = 0 /\ (\A g \in Gen \cup {None} : g \in Nat)
      /\ old \in Gen \cup {None} /\ old <= issued
  BY <1>2, TokenFacts
<1>6. old # None /\ sel \in Gen /\ sel <= issued /\ root[sel] = root[old] /\ sel >= old
  <2>1. CASE pc[x] = "post" /\ sel = loc[x].sel
    BY <2>1, <1>i, ActorFacts DEF SameLogin
  <2>2. CASE pc[x] = "locked" /\ old # None /\ sel = old
    <3>1. old \in Gen /\ old \in Nat BY <2>2, <1>5
    <3>. QED BY <2>2, <3>1, <1>5
  <2>3. CASE pc[x] = "locked" /\ old # None /\ x \in Task /\ sel = loc[x].fb /\ loc[x].ub = old
    <3>1. root[loc[x].fb] = root[loc[x].ub] /\ loc[x].fb > loc[x].ub
      BY <2>3, <1>i DEF UnsavedLogin
    <3>2. loc[x].fb \in Gen \cup {None} /\ loc[x].fb <= issued BY ActorFacts
    <3>3. old \in Nat /\ loc[x].fb \in Nat BY <3>2, <1>5
    <3>. QED BY <2>3, <3>1, <3>2, <3>3, <1>5
  <2>. QED BY <1>1, <1>i, <2>1, <2>2, <2>3 DEF PostEvolves
<1>7. root'[sel] = root'[old] BY <1>4, <1>5, <1>6
<1>8. ASSUME loc'[x].ans \in Gen
      PROVE root'[loc'[x].ans] = root'[old] /\ loc'[x].ans > sel
  <2>1. CASE pc[x] = "post" /\ loc'[x].ans = loc[x].ans /\ sel = loc[x].sel
    <3>1. root[loc[x].ans] = root[old] /\ loc[x].ans > sel
      BY <2>1, <1>8, <1>i DEF SameLogin
    <3>2. loc[x].ans <= issued BY <2>1, <1>8, ActorFacts
    <3>. QED BY <2>1, <3>1, <3>2, <1>4, <1>5, <1>6, <1>8
  <2>2. CASE loc'[x].ans = issued + 1 /\ root'[issued + 1] = root[sel]
    <3>1. sel \in Nat /\ old \in Gen BY <1>5, <1>6
    <3>2. root'[old] = root[old] BY <3>1, <1>4, <1>5
    <3>3. issued + 1 > sel BY <3>1, <1>5, <1>6
    <3>. QED BY <2>2, <3>2, <3>3, <1>6
  <2>. QED BY <1>1, <1>8, <1>i, <2>1, <2>2 DEF PostEvolves
<1>. QED BY <1>3, <1>6, <1>7, <1>8

\* A credential that could not be saved continues the login on file.
LEMMA UnsavedLoginStep ==
  ASSUME IInv, Lineage, Evolves PROVE UnsavedLogin'
<1>i. /\ SameLogin /\ UnsavedLogin /\ Roots /\ ServerEvolves
      /\ \A p \in Proc : ProcEvolves(p)
      /\ \A t \in Task : CopyEvolves(t)
  BY DEF Lineage, Evolves, ActorEvolves, Actor
<1>1. /\ issued \in Nat /\ Gen \subseteq Nat \ {0} /\ None = 0 /\ (\A g \in Gen \cup {None} : g \in Nat) BY TokenFacts
<1>2. \A g \in Gen : g <= issued => root'[g] = root[g] BY <1>i, RootsKept
<1>3. ASSUME NEW p \in Proc, used[p] # None
      PROVE /\ root[mem[p]] = root[used[p]] /\ mem[p] > used[p]
            /\ root'[mem[p]] = root'[used[p]]
  <2>1. root[mem[p]] = root[used[p]] /\ mem[p] > used[p] BY <1>3, <1>i DEF UnsavedLogin
  <2>2. used[p] \in Gen /\ mem[p] \in Gen \cup {None} /\ mem[p] <= issued BY <1>3, TokenFacts
  <2>3. used[p] \in Nat /\ mem[p] \in Nat BY <2>2, <1>1
  <2>4. mem[p] \in Gen /\ used[p] <= issued BY <2>1, <2>2, <2>3, <1>1
  <2>. QED BY <2>1, <2>2, <2>4, <1>2
<1>4. ASSUME NEW p \in Proc, used'[p] # None
      PROVE root'[mem'[p]] = root'[used'[p]] /\ mem'[p] > used'[p]
  <2>1. CASE mem'[p] = mem[p] /\ used'[p] = used[p] BY <2>1, <1>3, <1>4
  <2>2. CASE \E t \in Task : /\ TaskProc[t] = p /\ pc[t] = "post" /\ loc[t].ans \in Gen
                             /\ mem'[p] = loc[t].ans /\ used'[p] = file.tok[ProcProfile[p]]
    <3>1. PICK t \in Task : /\ TaskProc[t] = p /\ pc[t] = "post" /\ loc[t].ans \in Gen
                            /\ mem'[p] = loc[t].ans /\ used'[p] = file.tok[ProcProfile[p]]
      BY <2>2
    <3>. DEFINE old == file.tok[ProfileOf(t)]
    <3>2. t \in Actor /\ used'[p] = old BY <3>1 DEF Actor, ProfileOf
    <3>3. /\ old # None /\ root[loc[t].ans] = root[old]
          /\ loc[t].ans > loc[t].sel /\ loc[t].sel >= old
      BY <3>1, <3>2, <1>i DEF SameLogin
    <3>4. /\ ProfileOf(t) \in Profile /\ loc[t].sel \in Gen /\ loc[t].ans <= issued
      BY <3>1, <3>2, ActorFacts
    <3>5. old \in Gen /\ old <= issued BY <3>3, <3>4, TokenFacts
    <3>6. old \in Nat /\ loc[t].sel \in Nat /\ loc[t].ans \in Nat BY <3>1, <3>4, <3>5, <1>1
    <3>7. loc[t].ans > old BY <3>3, <3>6
    <3>. QED BY <3>1, <3>2, <3>3, <3>4, <3>5, <3>7, <1>2
  <2>. QED BY <1>4, <1>i, <2>1, <2>2 DEF ProcEvolves
<1>5. ASSUME NEW t \in Task, pc'[t] \in {"acquire", "locked"}, loc'[t].ub # None
      PROVE root'[loc'[t].fb] = root'[loc'[t].ub] /\ loc'[t].fb > loc'[t].ub
  <2>1. CASE pc[t] \in {"acquire", "locked"} /\ loc'[t].fb = loc[t].fb /\ loc'[t].ub = loc[t].ub
    <3>1. root[loc[t].fb] = root[loc[t].ub] /\ loc[t].fb > loc[t].ub
      BY <1>5, <2>1, <1>i DEF UnsavedLogin
    <3>2. /\ loc[t].ub \in Gen /\ loc[t].fb \in Gen \cup {None} /\ loc[t].fb <= issued
      BY <1>5, <2>1, ActorFacts DEF Actor
    <3>3. loc[t].ub \in Nat /\ loc[t].fb \in Nat BY <3>2, <1>1
    <3>4. loc[t].fb \in Gen /\ loc[t].ub <= issued BY <3>1, <3>2, <3>3, <1>1
    <3>. QED BY <2>1, <3>1, <3>2, <3>4, <1>2
  <2>2. CASE loc'[t].fb = mem[TaskProc[t]] /\ loc'[t].ub = used[TaskProc[t]]
    BY <2>2, <1>3, <1>5
  <2>. QED BY <1>5, <1>i, <2>1, <2>2 DEF CopyEvolves
<1>. QED BY <1>4, <1>5 DEF UnsavedLogin

\* Every step keeps the lineage of the tokens.
LEMMA LineageStep == ASSUME IInv, Lineage, Evolves PROVE Lineage'
<1>1. Roots' BY RootsStep DEF Lineage
<1>. QED BY <1>1, OneLoginStep, NewLoginStep, SameLoginStep, UnsavedLoginStep, LoggedOutStep DEF Lineage

\* What a command that waits for consent remembers does not come back.
LEMMA ConsentInvStep ==
  ASSUME IInv, IInv', Lineage, ConsentInv, Evolves PROVE ConsentInv'
<1>i. /\ SameLogin /\ Roots /\ ServerEvolves /\ FileEvolves /\ HistoryEvolves
      /\ \A y \in Actor : AnswerEvolves(y)
      /\ \A x \in Cli : ConsentEvolves(x)
  BY DEF Lineage, Evolves, ActorEvolves, Actor
<1>1. SUFFICES ASSUME NEW x \in Cli, AwaitsConsent(x)'
               PROVE /\ loc'[x].sel \in 1 .. issued'
                     /\ \A y \in Actor : loc'[y].ans # loc'[x].sel
                     /\ x \in touched' => file'.tok[loc'[x].q] # loc'[x].sel
  BY DEF ConsentInv
<1>. DEFINE sel == loc[x].sel
<1>2. /\ issued \in Nat /\ issued' \in Nat /\ issued <= issued' /\ Gen \subseteq Nat \ {0} /\ None = 0 /\ (\A g \in Gen \cup {None} : g \in Nat)
      /\ x \in Actor
  BY <1>i, TokenFacts, RootsKept DEF Actor
<1>3. CASE AwaitsConsent(x) /\ loc'[x].sel = sel /\ loc'[x].q = loc[x].q
  <2>1. /\ sel \in 1 .. issued /\ \A y \in Actor : loc[y].ans # sel
        /\ x \in touched => file.tok[loc[x].q] # sel
    BY <1>3 DEF ConsentInv
  <2>2. sel # issued + 1 /\ sel # None /\ sel \in 1 .. issued' BY <2>1, <1>2
  <2>3. ASSUME NEW y \in Actor PROVE loc'[y].ans # sel
    <3>1. CASE loc'[y].ans \in Gen BY <3>1, <2>1, <2>2, <1>i DEF AnswerEvolves
    <3>2. CASE loc'[y].ans \notin Gen
      <4>1. sel \in Gen BY <2>1, TokenFacts DEF Gen
      <4>. QED BY <3>2, <4>1
    <3>. QED BY <3>1, <3>2
  <2>4. ASSUME x \in touched' PROVE file'.tok[loc[x].q] # sel
    <3>1. ProfileOf(x) = loc[x].q /\ loc[x].q \in Profile BY <1>2, ActorFacts, CredentialsAssumption DEF ProfileOf
    <3>2. CASE x \in touched BY <3>1, <3>2, <2>1, <2>2, <1>i, FileEvolvesTo
    <3>3. CASE \/ file'.tok[loc[x].q] = None
               \/ \E y \in Actor : file'.tok[loc[x].q] = loc[y].ans
      BY <3>3, <2>1, <2>2
    <3>. QED BY <2>4, <3>2, <3>3, <1>i DEF HistoryEvolves
  <2>. QED BY <1>3, <2>2, <2>3, <2>4
<1>4. CASE /\ pc[x] = "post" /\ file' = file /\ x \notin touched'
           /\ loc'[x].sel = file.tok[ProfileOf(x)]
  <2>1. file.tok[ProfileOf(x)] # None /\ ProfileOf(x) \in Profile
    BY <1>2, <1>4, <1>i, ActorFacts DEF SameLogin
  <2>2. loc'[x].sel \in Gen /\ loc'[x].sel <= issued BY <1>4, <2>1, TokenFacts
  <2>3. \A y \in Actor : loc'[y].ans \in Gen => file'.tok[ProfileOf(x)] # loc'[y].ans
    BY <2>1 DEF IInv, AnswerFresh
  <2>4. loc'[x].sel \in Nat /\ loc'[x].sel # 0 BY <2>2, <1>2
  <2>. QED BY <1>2, <1>4, <2>2, <2>3, <2>4
<1>. QED BY <1>1, <1>3, <1>4, <1>i DEF AwaitsConsent, ConsentEvolves

\* A retry never carries the token that was rejected, and a task refreshes
\* with what its process knows.
LEMMA RetryInvStep ==
  ASSUME IInv, IInv', Lineage, RetryInv, Evolves PROVE RetryInv'
<1>i. /\ SameLogin /\ UnsavedLogin /\ OneRefresher /\ Roots /\ ServerEvolves /\ FileEvolves
      /\ \A y \in Actor : AnswerEvolves(y) /\ PostEvolves(y)
      /\ \A p \in Proc : ProcEvolves(p)
      /\ \A t \in Task : CopyEvolves(t) /\ RetryEvolves(t)
      /\ AnswerFresh
  BY DEF Lineage, Evolves, ActorEvolves, Actor, IInv
<1>1. SUFFICES ASSUME NEW t \in Task
               PROVE /\ loc'[t].rej <= issued'
                     /\ \A y \in Actor : loc'[y].ans \in Gen => loc'[y].ans # loc'[t].rej
                     /\ loc'[t].op = "force" \/ loc'[t].again => loc'[t].rej \in Gen
                     /\ loc'[t].again => /\ mem'[TaskProc[t]] # loc'[t].rej
                                         /\ file'.tok[ProcProfile[TaskProc[t]]] # loc'[t].rej
                     /\ pc'[t] = "sent" /\ loc'[t].again => loc'[t].tok # loc'[t].rej
                     /\ pc'[t] \in {"acquire", "locked", "post"} => used'[TaskProc[t]] \in {None, loc'[t].ub}
                     /\ pc'[t] = "post" => loc'[t].sel # loc'[t].ub
  BY DEF RetryInv
<1>. DEFINE p == TaskProc[t]
            q == ProcProfile[p]
            bad == loc'[t].rej
<1>2. /\ issued \in Nat /\ issued' \in Nat /\ issued <= issued' /\ Gen \subseteq Nat \ {0} /\ None = 0 /\ (\A g \in Gen \cup {None} : g \in Nat)
      /\ None \notin Gen /\ t \in Actor /\ p \in Proc /\ q \in Profile /\ ProfileOf(t) = q
  BY <1>i, TokenFacts, RootsKept DEF Actor, ProfileOf
<1>3. /\ loc[t].rej <= issued
      /\ \A y \in Actor : loc[y].ans \in Gen => loc[y].ans # loc[t].rej
      /\ loc[t].op = "force" \/ loc[t].again => loc[t].rej \in Gen
      /\ loc[t].again => mem[p] # loc[t].rej /\ file.tok[q] # loc[t].rej
      /\ pc[t] = "sent" /\ loc[t].again => loc[t].tok # loc[t].rej
      /\ pc[t] \in {"acquire", "locked", "post"} => used[p] \in {None, loc[t].ub}
      /\ pc[t] = "post" => loc[t].sel # loc[t].ub
  BY DEF RetryInv
<1>4. mem[p] \in Gen \cup {None} /\ mem[p] <= issued /\ loc[t].rej \in Gen \cup {None}
  BY <1>2, TokenFacts, ActorFacts
<1>5. bad \in {None, loc[t].rej, mem[p]} BY <1>i DEF RetryEvolves
<1>6. bad <= issued /\ bad \in Nat /\ bad <= issued'
  <2>1. bad <= issued BY <1>2, <1>3, <1>4, <1>5
  <2>2. bad \in Gen \cup {None} BY <1>4, <1>5
  <2>3. bad \in Nat BY <2>2, <1>2
  <2>. QED BY <2>1, <2>3, <1>2
<1>7. ASSUME NEW y \in Actor, loc'[y].ans \in Gen PROVE loc'[y].ans # bad
  <2>1. CASE loc'[y].ans = loc[y].ans
    <3>1. \A r \in Proc : mem[r] # loc[y].ans BY <2>1, <1>7, <1>i DEF AnswerFresh
    <3>. QED BY <2>1, <3>1, <1>2, <1>3, <1>5, <1>7
  <2>2. CASE loc'[y].ans = issued + 1 BY <2>2, <1>2, <1>6
  <2>. QED BY <2>1, <2>2, <1>7, <1>i DEF AnswerEvolves
<1>8. ASSUME loc'[t].op = "force" \/ loc'[t].again PROVE bad \in Gen
  BY <1>8, <1>3, <1>4, <1>i DEF RetryEvolves
<1>9. ASSUME loc'[t].again PROVE mem'[p] # bad /\ file'.tok[q] # bad
  <2>1. CASE mem'[p] # bad /\ file'.tok[q] # bad BY <2>1
  <2>2. CASE loc[t].again /\ bad = loc[t].rej
    <3>1. mem[p] # bad /\ file.tok[q] # bad /\ bad # None BY <2>2, <1>2, <1>3, <1>8, <1>9
    <3>2. \A y \in Actor : loc[y].ans \in Gen => loc[y].ans # bad BY <2>2, <1>3
    <3>3. file'.tok[q] # bad BY <3>1, <3>2, <1>2, <1>i, FileEvolvesTo
    <3>4. mem'[p] # bad BY <3>1, <3>2, <3>3, <1>2, <1>i DEF ProcEvolves, Actor
    <3>. QED BY <3>3, <3>4
  <2>. QED BY <1>9, <2>1, <2>2, <1>i DEF RetryEvolves
<1>10. ASSUME pc'[t] = "sent", loc'[t].again PROVE loc'[t].tok # bad
  <2>1. bad = loc[t].rej BY <1>10, <1>i DEF RetryEvolves
  <2>2. mem'[p] # bad BY <1>9, <1>10
  <2>. QED BY <1>10, <2>1, <2>2, <1>3, <1>i DEF RetryEvolves
<1>11. ASSUME pc'[t] \in {"acquire", "locked", "post"} PROVE used'[p] \in {None, loc'[t].ub}
  <2>1. CASE pc[t] \in {"acquire", "locked", "post"} /\ loc'[t].ub = loc[t].ub
    <3>1. alock[p] = t BY <2>1, <1>i DEF OneRefresher
    <3>2. ASSUME NEW u \in Task, TaskProc[u] = p, pc[u] = "post", pc'[u] = "idle" PROVE FALSE
      <4>1. alock[p] = u BY <3>2, <1>i DEF OneRefresher
      <4>. QED BY <4>1, <3>1, <3>2, <1>11
    <3>. QED BY <2>1, <3>2, <1>2, <1>3, <1>i DEF ProcEvolves
  <2>2. CASE loc'[t].ub = used[p] /\ used'[p] = used[p] BY <2>2
  <2>. QED BY <1>11, <2>1, <2>2, <1>2, <1>i DEF CopyEvolves, PostEvolves
<1>12. ASSUME pc'[t] = "post" PROVE loc'[t].sel # loc'[t].ub
  <2>1. CASE pc[t] = "post" /\ loc'[t].sel = loc[t].sel /\ loc'[t].ub = loc[t].ub BY <2>1, <1>3
  <2>2. CASE loc'[t].sel = file.tok[q] /\ loc'[t].ub # file.tok[q] BY <2>2
  <2>3. CASE /\ pc[t] = "locked" /\ file.tok[q] # None
             /\ loc'[t].sel = loc[t].fb /\ loc[t].ub = file.tok[q] /\ loc'[t].ub = loc[t].ub
    <3>1. loc[t].fb > loc[t].ub BY <2>3, <1>i DEF UnsavedLogin
    <3>2. loc[t].ub \in Gen \cup {None} BY <1>2, ActorFacts
    <3>3. loc[t].ub \in Nat BY <3>2, <1>2
    <3>. QED BY <2>3, <3>1, <3>3
  <2>. QED BY <1>12, <1>2, <1>i, <2>1, <2>2, <2>3 DEF PostEvolves
<1>. QED BY <1>6, <1>7, <1>8, <1>9, <1>10, <1>11, <1>12
-----------------------------------------------------------------------------
\* Every step of the store is such a step.

\* The fields of idle locals that RestFields leaves out.
LEMMA RestMore == Rest.rej = None /\ Rest.again = FALSE /\ Rest.q = Default
BY DEF Rest

\* An actor that does not move evolves.
LEMMA Unmoved ==
  ASSUME NEW y \in Actor, pc'[y] = pc[y], loc'[y] = loc[y] PROVE ActorEvolves(y)
BY DEF ActorEvolves, AnswerEvolves, PostEvolves, CopyEvolves, RetryEvolves, ConsentEvolves,
       AwaitsConsent

\* So does one that ends its call.
LEMMA Ended ==
  ASSUME NEW y \in Actor, pc'[y] = "idle", loc'[y] = Rest PROVE ActorEvolves(y)
BY RestFields, RestMore, Tokens
   DEF ActorEvolves, AnswerEvolves, PostEvolves, CopyEvolves, RetryEvolves, ConsentEvolves, Logins

\* When one actor moves, all evolve if it does.
LEMMA OneMoves ==
  ASSUME TypeOK, NEW x \in Actor, NEW l, NEW r, GoTo(x, l, r), ActorEvolves(x)
  PROVE \A y \in Actor : ActorEvolves(y)
BY GoToEffect, Unmoved

\* When one actor ends its call, all evolve.
LEMMA OneReturns ==
  ASSUME TypeOK, NEW x \in Actor, Return(x)
  PROVE \A y \in Actor : ActorEvolves(y)
BY ReturnEffect, Unmoved, Ended

\* A step that leaves the file, the server and the processes alone evolves the
\* store when it evolves the actors.
LEMMA CalmStep ==
  ASSUME UNCHANGED <<file, mem, used, issued, root, ended>>, touched' \subseteq touched,
         \A y \in Actor : ActorEvolves(y)
  PROVE Evolves
BY DEF Evolves, ServerEvolves, FileEvolves, HistoryEvolves, ProcEvolves

\* The steps that only end a call.
LEMMA ReturnEvolves ==
  ASSUME IInv, NEW x \in Actor, Return(x),
         UNCHANGED <<file, mem, used, issued, root, ended>>, touched' \subseteq touched
  PROVE Evolves
<1>1. TypeOK BY DEF IInv
<1>. QED BY <1>1, OneReturns, CalmStep

\* The steps of a task outside the file lock.
LEMMA TaskEvolves ==
  ASSUME IInv, NEW t \in Task, BeginRequest(t) \/ TakeLock(t) \/ TaskStep(t)
  PROVE Evolves
<1>1. TypeOK /\ t \in Actor /\ t \notin Cli /\ TaskProc[t] \in Proc
  BY CredentialsAssumption DEF IInv, Actor
<1>2. UNCHANGED <<file, mem, used, issued, root, ended, touched>>
  BY DEF BeginRequest, TakeLock, TaskStep, Accepted, Unauthorized, server, history
<1>3. mem[TaskProc[t]] # None \/ pc[t] = "idle" BY DEF IInv, KnownProfile
<1>4. CASE GoTo(t, "idle", Rest)
  BY <1>1, <1>2, <1>4, GoToEffect, Ended, OneMoves, CalmStep
<1>5. ASSUME GoTo(t, "await_lock", [Rest EXCEPT !.op = "skew"]) PROVE Evolves
  <2>. DEFINE r == [Rest EXCEPT !.op = "skew"]
  <2>1. r.op = "skew" /\ r.ans = None /\ r.rej = None /\ r.again = FALSE
    BY RestFields, RestMore DEF Rest
  <2>2. GoTo(t, "await_lock", r) BY <1>5
  <2>. HIDE DEF r
  <2>3. pc'[t] = "await_lock" /\ loc'[t] = r BY <2>2, <1>1, GoToEffect
  <2>4. ActorEvolves(t)
    BY <2>1, <2>3, <1>1, Tokens
    DEF ActorEvolves, AnswerEvolves, PostEvolves, CopyEvolves, RetryEvolves, Logins
  <2>. QED BY <2>2, <2>4, <1>1, <1>2, OneMoves, CalmStep
<1>6. ASSUME pc[t] = "sent", GoTo(t, "await_lock", [Rest EXCEPT !.op = "force", !.rej = mem[TaskProc[t]]])
      PROVE Evolves
  <2>. DEFINE r == [Rest EXCEPT !.op = "force", !.rej = mem[TaskProc[t]]]
  <2>1. r.op = "force" /\ r.ans = None /\ r.rej = mem[TaskProc[t]] /\ r.again = FALSE
    BY RestFields, RestMore DEF Rest
  <2>2. GoTo(t, "await_lock", r) BY <1>6
  <2>. HIDE DEF r
  <2>3. pc'[t] = "await_lock" /\ loc'[t] = r BY <2>2, <1>1, GoToEffect
  <2>4. ActorEvolves(t)
    BY <2>1, <2>3, <1>1, <1>3, <1>6, Tokens
    DEF ActorEvolves, AnswerEvolves, PostEvolves, CopyEvolves, RetryEvolves, Logins
  <2>. QED BY <2>2, <2>4, <1>1, <1>2, OneMoves, CalmStep
<1>7. ASSUME TakeLock(t) PROVE Evolves
  <2>. DEFINE p == TaskProc[t]
              r == [loc[t] EXCEPT !.op = "none", !.tok = mem[p]]
              s == [loc[t] EXCEPT !.fb = mem[p], !.ub = used[p]]
  <2>1. /\ r.op = "none" /\ r.tok = mem[p] /\ r.ans = loc[t].ans /\ r.rej = loc[t].rej
        /\ r.again = loc[t].again
        /\ s.op = loc[t].op /\ s.fb = mem[p] /\ s.ub = used[p] /\ s.ans = loc[t].ans
        /\ s.rej = loc[t].rej /\ s.again = loc[t].again
    BY <1>1 DEF TypeOK, Locals
  <2>2. GoTo(t, "sent", r) \/ GoTo(t, "acquire", s) BY <1>7 DEF TakeLock
  <2>. HIDE DEF r, s
  <2>3. CASE GoTo(t, "sent", r)
    <3>1. pc'[t] = "sent" /\ loc'[t] = r BY <2>3, <1>1, GoToEffect
    <3>2. ActorEvolves(t)
      BY <2>1, <3>1, <1>1, <1>2
      DEF ActorEvolves, AnswerEvolves, PostEvolves, CopyEvolves, RetryEvolves, Logins
    <3>. QED BY <2>3, <3>2, <1>1, <1>2, OneMoves, CalmStep
  <2>4. CASE GoTo(t, "acquire", s)
    <3>1. pc'[t] = "acquire" /\ loc'[t] = s BY <2>4, <1>1, GoToEffect
    <3>2. ActorEvolves(t)
      BY <2>1, <3>1, <1>1, <1>2
      DEF ActorEvolves, AnswerEvolves, PostEvolves, CopyEvolves, RetryEvolves, Logins
    <3>. QED BY <2>4, <3>2, <1>1, <1>2, OneMoves, CalmStep
  <2>. QED BY <2>2, <2>3, <2>4
<1>. QED BY <1>4, <1>5, <1>6, <1>7 DEF BeginRequest, TaskStep, Accepted, Unauthorized

\* A command that moves on without a new token or a wait for consent.
LEMMA CliEvolves ==
  ASSUME IInv, NEW x \in Cli, NEW l, NEW r, GoTo(x, l, r), l \notin {"post", "consent"},
         UNCHANGED <<file, mem, used, issued, root, ended, touched>>,
         \/ r.op \notin Logins /\ r.ans \in {None, loc[x].ans}
         \/ r.op = loc[x].op /\ r.ans = loc[x].ans /\ r.sel = loc[x].sel /\ r.q = loc[x].q
  PROVE Evolves
<1>1. TypeOK /\ x \in Actor /\ x \notin Task BY CredentialsAssumption DEF IInv, Actor
<1>2. pc'[x] = l /\ loc'[x] = r BY <1>1, GoToEffect
<1>3. ActorEvolves(x)
  BY <1>1, <1>2, Tokens
  DEF ActorEvolves, AnswerEvolves, PostEvolves, ConsentEvolves, AwaitsConsent, Logins
<1>. QED BY <1>1, <1>3, OneMoves, CalmStep

\* Taking the file lock.
LEMMA AcquireEvolves ==
  ASSUME IInv, NEW x \in Actor, Acquire(x) PROVE Evolves
<1>1. TypeOK BY DEF IInv
<1>2. /\ pc[x] = "acquire" /\ pc'[x] = "locked" /\ loc'[x] = loc[x] /\ GoTo(x, "locked", loc[x])
      /\ UNCHANGED <<file, mem, used, issued, root, ended, touched>>
  BY <1>1 DEF Acquire, GoTo, TypeOK, server, history
<1>3. ActorEvolves(x)
  BY <1>2
  DEF ActorEvolves, AnswerEvolves, PostEvolves, CopyEvolves, RetryEvolves, ConsentEvolves, AwaitsConsent
<1>. QED BY <1>1, <1>2, <1>3, OneMoves, CalmStep

\* The starts of commands that ask for no token.
LEMMA CliStartEvolves ==
  ASSUME IInv, NEW x \in Cli, NEW q \in Profile,
         LogoutAll(x) \/ Logout(x, q) \/ RefreshCommand(x, q) \/ Use(x, q) \/ Revoke(x, q)
  PROVE Evolves
<1>0. TypeOK /\ x \in Actor BY DEF IInv, Actor
<1>1. CASE LogoutAll(x)
  <2>. DEFINE r == [Rest EXCEPT !.op = "logout_all", !.cf = file,
                                !.todo = {p \in Profile : file.tok[p] # None}]
  <2>1. r.op = "logout_all" /\ r.ans = None BY RestFields DEF Rest
  <2>2. GoTo(x, "revoke", r) /\ UNCHANGED <<file, mem, used, issued, root, ended, touched>>
    BY <1>1 DEF LogoutAll, server, history
  <2>. HIDE DEF r
  <2>. QED BY <2>1, <2>2, CliEvolves DEF Logins
<1>2. CASE Logout(x, q)
  <2>. DEFINE r == [Rest EXCEPT !.op = "logout", !.q = q, !.cf = file, !.todo = {q}]
  <2>1. r.op = "logout" /\ r.ans = None BY RestFields DEF Rest
  <2>2. GoTo(x, "revoke", r) /\ UNCHANGED <<file, mem, used, issued, root, ended, touched>>
    BY <1>2 DEF Logout, server, history
  <2>. HIDE DEF r
  <2>. QED BY <2>1, <2>2, CliEvolves DEF Logins
<1>3. CASE Use(x, q)
  <2>. DEFINE r == [Rest EXCEPT !.op = "use", !.q = q]
  <2>1. r.op = "use" /\ r.ans = None BY RestFields DEF Rest
  <2>2. GoTo(x, "acquire", r) /\ UNCHANGED <<file, mem, used, issued, root, ended, touched>>
    BY <1>3 DEF Use, server, history
  <2>. HIDE DEF r
  <2>. QED BY <2>1, <2>2, CliEvolves DEF Logins
<1>4. CASE RefreshCommand(x, q)
  <2>1. PICK op \in Commands \cap {"refresh", "token", "scope"} :
          GoTo(x, "acquire", [Rest EXCEPT !.op = op, !.q = q, !.fb = file.tok[q],
                               !.rej = IF op = "token" THEN None ELSE file.tok[q]])
    BY <1>4 DEF RefreshCommand
  <2>. DEFINE r == [Rest EXCEPT !.op = op, !.q = q, !.fb = file.tok[q],
                               !.rej = IF op = "token" THEN None ELSE file.tok[q]]
  <2>2. r.op = op /\ r.ans = None BY RestFields DEF Rest
  <2>3. GoTo(x, "acquire", r) /\ UNCHANGED <<file, mem, used, issued, root, ended, touched>>
    BY <1>4, <2>1 DEF RefreshCommand, server, history
  <2>. HIDE DEF r
  <2>4. r.op \notin Logins BY <2>2 DEF Logins
  <2>. QED BY <2>2, <2>3, <2>4, CliEvolves
<1>5. CASE Revoke(x, q)
  <2>. DEFINE left == loc[x].todo \ {q}
              r == [loc[x] EXCEPT !.todo = left]
              l == IF left = {} THEN "acquire" ELSE "revoke"
  <2>1. r.op = loc[x].op /\ r.ans = loc[x].ans /\ r.sel = loc[x].sel /\ r.q = loc[x].q
    BY <1>0 DEF TypeOK, Locals
  <2>2. GoTo(x, l, r) /\ UNCHANGED <<file, mem, used, issued, root, ended, touched>>
    BY <1>5 DEF Revoke, history
  <2>3. l \notin {"post", "consent"} OBVIOUS
  <2>. HIDE DEF r, l
  <2>. QED BY <2>1, <2>2, <2>3, CliEvolves
<1>. QED BY <1>1, <1>2, <1>3, <1>4, <1>5

\* A refresh that ends with credential g in force, which is on file by then and
\* is not the one a forced refresh captured, evolves the processes and actors.
LEMMA AdoptEvolves ==
  ASSUME IInv, NEW x \in Actor, NEW g \in Gen, Refreshes(x), Adopt(x, g),
         file'.tok[ProfileOf(x)] = g,
         x \in Task /\ loc[x].op = "force" => loc[x].rej # g
  PROVE /\ \A p \in Proc : ProcEvolves(p)
        /\ \A y \in Actor : ActorEvolves(y)
        /\ pc'[x] # "post" /\ \A y \in Actor : y # x => pc'[y] = pc[y] /\ loc'[y] = loc[y]
<1>1. TypeOK /\ mem \in [Proc -> Gen \cup {None}] /\ used \in [Proc -> Gen \cup {None}]
  BY DEF IInv, TypeOK
<1>2. CASE x \notin Task
  <2>1. Return(x) /\ UNCHANGED <<mem, used>> BY <1>2 DEF Adopt
  <2>. QED BY <1>1, <2>1, OneReturns, ReturnEffect DEF ProcEvolves
<1>3. CASE x \in Task
  <2>. DEFINE p == TaskProc[x]
              r == [Rest EXCEPT !.tok = g, !.rej = loc[x].rej, !.again = loc[x].again]
              s == [Rest EXCEPT !.op = "skew", !.again = TRUE, !.rej = loc[x].rej]
  <2>1. /\ r.op = "none" /\ r.tok = g /\ r.ans = None /\ r.rej = loc[x].rej /\ r.again = loc[x].again
        /\ s.op = "skew" /\ s.ans = None /\ s.rej = loc[x].rej /\ s.again = TRUE
    BY RestFields, RestMore DEF Rest
  <2>2. /\ mem' = [mem EXCEPT ![p] = g] /\ used' = [used EXCEPT ![p] = None]
        /\ IF loc[x].op = "skew" THEN GoTo(x, "sent", r) ELSE GoTo(x, "await_lock", s)
    BY <1>3 DEF Adopt
  <2>. HIDE DEF r, s
  <2>3. p \in Proc /\ ProfileOf(x) = ProcProfile[p] /\ x \notin Cli
    BY <1>3, CredentialsAssumption DEF ProfileOf
  <2>4. mem'[p] = g /\ file'.tok[ProcProfile[p]] = g BY <1>1, <2>2, <2>3
  <2>5. \A o \in Proc : ProcEvolves(o) BY <1>1, <2>2, <2>3, <2>4 DEF ProcEvolves
  <2>6. CASE loc[x].op = "skew"
    <3>1. GoTo(x, "sent", r) BY <2>2, <2>6
    <3>2. pc'[x] = "sent" /\ loc'[x] = r BY <1>1, <3>1, GoToEffect
    <3>3. ActorEvolves(x)
      BY <2>1, <2>3, <2>4, <3>2, Tokens
      DEF ActorEvolves, AnswerEvolves, PostEvolves, CopyEvolves, RetryEvolves, Logins
    <3>. QED BY <1>1, <2>5, <3>1, <3>2, <3>3, OneMoves, GoToEffect
  <2>7. CASE loc[x].op # "skew"
    <3>0. loc[x].op = "force" BY <1>3, <2>7 DEF IInv, OpsInPlace, Refreshes
    <3>1. GoTo(x, "await_lock", s) BY <2>2, <2>7
    <3>2. pc'[x] = "await_lock" /\ loc'[x] = s BY <1>1, <3>1, GoToEffect
    <3>3. ActorEvolves(x)
      BY <2>1, <2>3, <2>4, <3>0, <3>2, Tokens
      DEF ActorEvolves, AnswerEvolves, PostEvolves, CopyEvolves, RetryEvolves, Logins
    <3>. QED BY <1>1, <2>5, <3>1, <3>2, <3>3, OneMoves, GoToEffect
  <2>. QED BY <2>6, <2>7
<1>. QED BY <1>2, <1>3

\* Another process refreshed already.
LEMMA RefreshAdoptEvolves ==
  ASSUME IInv, NEW x \in Actor, RefreshAdopt(x) PROVE Evolves
<1>1. /\ Refreshes(x) /\ AlreadyRotated(x) /\ Adopt(x, Disk(x))
      /\ UNCHANGED <<file, issued, root, ended, touched>>
  BY DEF RefreshAdopt, server, history
<1>2. Disk(x) # None /\ Disk(x) = file.tok[ProfileOf(x)] BY <1>1 DEF AlreadyRotated, Disk, OnFile
<1>3. Disk(x) \in Gen BY <1>2, TokenFacts, ActorFacts
<1>4. loc[x].op = "force" => loc[x].rej # Disk(x) BY <1>1 DEF AlreadyRotated
<1>5. /\ \A p \in Proc : ProcEvolves(p)
      /\ \A y \in Actor : ActorEvolves(y)
  BY <1>1, <1>2, <1>3, <1>4, AdoptEvolves
<1>. QED BY <1>1, <1>5 DEF Evolves, ServerEvolves, FileEvolves, HistoryEvolves

\* A refresh that goes out starts from the file's token, or from the copy of a
\* task that knows the file's token to be used up.
LEMMA RefreshPostEvolves ==
  ASSUME IInv, NEW x \in Actor, RefreshPost(x) PROVE Evolves
<1>. DEFINE old == file.tok[ProfileOf(x)]
            sel == IF Disk(x) # None THEN Disk(x) ELSE loc[x].fb
            r == [loc[x] EXCEPT !.sel = sel, !.cf = file, !.ans = None]
<1>1. TypeOK /\ OpsInPlace /\ KnownProfile BY DEF IInv
<1>2. /\ r.op = loc[x].op /\ r.sel = sel /\ r.ans = None /\ r.ub = loc[x].ub /\ r.q = loc[x].q
      /\ r.rej = loc[x].rej /\ r.again = loc[x].again
  BY <1>1 DEF TypeOK, Locals
<1>3. /\ pc[x] = "locked" /\ Refreshes(x) /\ ~LoggedOut(x) /\ GoTo(x, "post", r)
      /\ UNCHANGED <<file, mem, used, issued, root, ended, touched>>
  BY DEF RefreshPost, server
<1>4. old # None
  <2>1. CASE x \in Task
    <3>1. mem[TaskProc[x]] # None BY <1>1, <1>3, <2>1 DEF KnownProfile
    <3>. QED BY <1>1, <1>3, <2>1, <3>1 DEF KnownProfile, LoggedOut, OnFile, ProfileOf
  <2>2. CASE x \in Cli
    <3>1. x \notin Task BY <2>2, CredentialsAssumption
    <3>. QED BY <1>1, <1>3, <2>2, <3>1 DEF KnownProfile, LoggedOut, OnFile, ProfileOf
  <2>. QED BY <2>1, <2>2 DEF Actor
<1>5. \/ sel = old /\ loc[x].ub # old
      \/ x \in Task /\ sel = loc[x].fb /\ loc[x].ub = old
  BY <1>1, <1>4 DEF Disk, OnFile, OpsInPlace, Actor
<1>. HIDE DEF r, sel
<1>6. pc'[x] = "post" /\ loc'[x] = r BY <1>1, <1>3, GoToEffect
<1>7. AnswerEvolves(x) BY <1>2, <1>3, <1>6, Tokens DEF AnswerEvolves, Logins, Refreshes
<1>8. PostEvolves(x) BY <1>2, <1>3, <1>4, <1>5, <1>6, Tokens DEF PostEvolves
<1>9. CopyEvolves(x) /\ RetryEvolves(x) BY <1>2, <1>6 DEF CopyEvolves, RetryEvolves
<1>10. ConsentEvolves(x) BY <1>2, <1>3, <1>6 DEF ConsentEvolves, Refreshes
<1>11. ActorEvolves(x) BY <1>7, <1>8, <1>9, <1>10 DEF ActorEvolves
<1>. QED BY <1>1, <1>3, <1>11, OneMoves, CalmStep

\* While one actor holds the lock nobody else posts.
LEMMA OthersDoNotPost ==
  ASSUME IInv, NEW x \in Actor, pc[x] \in {"locked", "post", "recorded"}, pc'[x] # "post",
         \A y \in Actor : y # x => pc'[y] = pc[y]
  PROVE \A y \in Actor : pc'[y] # "post"
BY DEF IInv, LockHeld

\* A change of profile q touches only commands that wait for consent to it.
LEMMA TouchEvolves ==
  ASSUME NEW x \in Actor, NEW q, Touch(x, q), ended' = ended, file'.tok[q] = loc[x].ans,
         \A y \in Actor : y # x => loc'[y] = loc[y]
  PROVE HistoryEvolves
BY DEF Touch, HistoryEvolves, Actor

\* The answer of a refresh is saved.
LEMMA SaveRefreshedEvolves ==
  ASSUME IInv, RetryInv, NEW x \in Actor, SaveRefreshed(x) PROVE Evolves
<1>. DEFINE q == ProfileOf(x)
<1>1. /\ pc[x] = "post" /\ loc[x].ans \in Gen
      /\ file' = SetProfile(loc[x].cf, q, loc[x].ans)
      /\ Adopt(x, loc[x].ans) /\ Touch(x, q)
      /\ UNCHANGED <<issued, root, ended>>
  BY DEF SaveRefreshed, server
<1>2. loc[x].cf = file /\ Refreshes(x) BY <1>1 DEF IInv, LoadedIsCurrent, OpsInPlace
<1>3. file' = SetProfile(file, q, loc[x].ans) BY <1>1, <1>2
<1>4. q \in Profile /\ file \in File BY ActorFacts, TokenFacts
<1>5. file'.tok[q] = loc[x].ans BY <1>1, <1>3, <1>4, SetProfileEffect
<1>6. x \in Task => loc[x].rej # loc[x].ans BY <1>1 DEF RetryInv
<1>7. /\ \A p \in Proc : ProcEvolves(p)
      /\ \A y \in Actor : ActorEvolves(y)
      /\ pc'[x] # "post" /\ \A y \in Actor : y # x => pc'[y] = pc[y] /\ loc'[y] = loc[y]
  BY <1>1, <1>2, <1>5, <1>6, AdoptEvolves
<1>8. \A y \in Actor : pc'[y] # "post" BY <1>1, <1>7, OthersDoNotPost
<1>9. FileEvolves BY <1>1, <1>2, <1>3, <1>8 DEF FileEvolves, Refreshes
<1>10. HistoryEvolves BY <1>1, <1>5, <1>7, TouchEvolves
<1>. QED BY <1>1, <1>7, <1>9, <1>10 DEF Evolves, ServerEvolves

\* The answer of a refresh cannot be saved.
LEMMA RefreshNotSavedEvolves ==
  ASSUME IInv, NEW x \in Actor, RefreshNotSaved(x) PROVE Evolves
<1>1. /\ pc[x] = "post" /\ loc[x].ans \in Gen /\ Return(x)
      /\ UNCHANGED <<file, issued, root, ended, touched>>
  BY DEF RefreshNotSaved, server
<1>2. TypeOK /\ mem \in [Proc -> Gen \cup {None}] /\ used \in [Proc -> Gen \cup {None}]
  BY DEF IInv, TypeOK
<1>3. loc[x].cf = file BY <1>1 DEF IInv, LoadedIsCurrent
<1>4. pc'[x] = "idle" /\ \A y \in Actor : ActorEvolves(y)
  BY <1>1, <1>2, ReturnEffect, OneReturns
<1>5. CASE x \notin Task
  <2>1. UNCHANGED <<mem, used>> BY <1>5 DEF RefreshNotSaved
  <2>. QED BY <1>1, <1>4, <2>1, CalmStep
<1>6. CASE x \in Task
  <2>. DEFINE p == TaskProc[x]
  <2>1. /\ mem' = [mem EXCEPT ![p] = loc[x].ans]
        /\ used' = [used EXCEPT ![p] = file.tok[ProcProfile[p]]]
    BY <1>3, <1>6 DEF RefreshNotSaved, ProfileOf
  <2>2. \A o \in Proc : ProcEvolves(o) BY <1>1, <1>2, <1>4, <1>6, <2>1 DEF ProcEvolves
  <2>. QED BY <1>1, <1>4, <2>2 DEF Evolves, ServerEvolves, FileEvolves, HistoryEvolves
<1>. QED BY <1>5, <1>6

\* The server issues a token response that continues the login of another.
LEMMA IssueEvolves ==
  ASSUME IInv, NEW g \in Gen, Issue(root[g]), g <= issued,
         \A y \in Actor : loc[y].op \in Logins => loc[y].ans # g
  PROVE ServerEvolves /\ issued' = issued + 1 /\ root'[issued + 1] = root[g]
<1>1. /\ issued < MaxGen /\ issued' = issued + 1 /\ root' = [root EXCEPT ![issued + 1] = root[g]]
      /\ root \in [Gen -> Gen \cup {None}] /\ issued \in Gen
  BY DEF Issue, IInv, TypeOK
<1>2. issued + 1 \in Gen BY <1>1 DEF Gen
<1>. QED BY <1>1, <1>2 DEF ServerEvolves

\* The server answers a refresh.
LEMMA ServerExchangesEvolves ==
  ASSUME IInv, NEW x \in Actor, ServerExchanges(x) PROVE Evolves
<1>. DEFINE sel == loc[x].sel
            r == [loc[x] EXCEPT !.ans = issued + 1]
<1>1. TypeOK BY DEF IInv
<1>2. /\ pc[x] = "post" /\ Issue(root[sel]) /\ GoTo(x, pc[x], r)
      /\ UNCHANGED <<file, mem, used, pc, ended, touched>>
  BY <1>1 DEF ServerExchanges, Exchange, GoTo, TypeOK
<1>3. /\ r.op = loc[x].op /\ r.sel = sel /\ r.ans = issued + 1 /\ r.ub = loc[x].ub /\ r.q = loc[x].q
      /\ r.rej = loc[x].rej /\ r.again = loc[x].again
  BY <1>1 DEF TypeOK, Locals
<1>. HIDE DEF r
<1>4. sel \in Gen /\ sel <= issued /\ Refreshes(x) BY <1>2, ActorFacts DEF IInv, OpsInPlace
<1>5. ASSUME NEW y \in Actor, loc[y].op \in Logins PROVE loc[y].ans # sel
  <2>1. loc[y].ans \in Gen BY <1>5, ActorFacts
  <2>2. ~Sends(x, loc[y].ans) BY <2>1 DEF IInv, AnswerFresh
  <2>. QED BY <1>2, <2>2 DEF Sends
<1>6. ServerEvolves /\ issued' = issued + 1 /\ root'[issued + 1] = root[sel]
  BY <1>2, <1>4, <1>5, IssueEvolves
<1>7. pc'[x] = "post" /\ loc'[x] = r BY <1>1, <1>2, GoToEffect
<1>8. AnswerEvolves(x) BY <1>3, <1>4, <1>6, <1>7 DEF AnswerEvolves, Logins, Refreshes
<1>9. PostEvolves(x) BY <1>2, <1>3, <1>6, <1>7 DEF PostEvolves
<1>10. CopyEvolves(x) /\ RetryEvolves(x) BY <1>3, <1>7 DEF CopyEvolves, RetryEvolves
<1>11. ConsentEvolves(x) BY <1>3, <1>4, <1>7 DEF ConsentEvolves, Refreshes
<1>12. ActorEvolves(x) BY <1>8, <1>9, <1>10, <1>11 DEF ActorEvolves
<1>13. \A y \in Actor : ActorEvolves(y) BY <1>1, <1>2, <1>12, OneMoves
<1>. QED BY <1>2, <1>6, <1>13 DEF Evolves, FileEvolves, HistoryEvolves, ProcEvolves

\* The server refuses a refresh.
LEMMA ServerRefusesEvolves ==
  ASSUME IInv, NEW x \in Actor, ServerRefuses(x) PROVE Evolves
<1>1. TypeOK BY DEF IInv
<1>2. PICK a \in {Refused, ScopeRefused} : loc' = [loc EXCEPT ![x].ans = a] BY DEF ServerRefuses
<1>. DEFINE r == [loc[x] EXCEPT !.ans = a]
<1>3. /\ pc[x] = "post" /\ GoTo(x, pc[x], r)
      /\ UNCHANGED <<file, mem, used, issued, root, ended, touched>>
  BY <1>1, <1>2 DEF ServerRefuses, GoTo, TypeOK, server, history
<1>4. /\ r.op = loc[x].op /\ r.sel = loc[x].sel /\ r.ans = a /\ r.ub = loc[x].ub /\ r.q = loc[x].q
      /\ r.rej = loc[x].rej /\ r.again = loc[x].again
  BY <1>1 DEF TypeOK, Locals
<1>5. a \notin Gen BY Tokens
<1>. HIDE DEF r
<1>6. Refreshes(x) BY <1>3 DEF IInv, OpsInPlace
<1>7. pc'[x] = "post" /\ loc'[x] = r BY <1>1, <1>3, GoToEffect
<1>8. AnswerEvolves(x) BY <1>4, <1>5, <1>6, <1>7 DEF AnswerEvolves, Logins, Refreshes
<1>9. PostEvolves(x) BY <1>3, <1>4, <1>5, <1>7 DEF PostEvolves
<1>10. CopyEvolves(x) /\ RetryEvolves(x) BY <1>4, <1>7 DEF CopyEvolves, RetryEvolves
<1>11. ConsentEvolves(x) BY <1>4, <1>6, <1>7 DEF ConsentEvolves, Refreshes
<1>12. ActorEvolves(x) BY <1>8, <1>9, <1>10, <1>11 DEF ActorEvolves
<1>. QED BY <1>1, <1>3, <1>12, OneMoves, CalmStep

\* A request nobody waits for reaches the server.
LEMMA ServerOrphanEvolves ==
  ASSUME IInv, ServerOrphan PROVE Evolves
<1>1. PICK g \in orphans : \/ Exchange(g)
                           \/ UNCHANGED <<issued, root>>
  BY DEF ServerOrphan
<1>2. UNCHANGED <<file, mem, used, pc, loc, ended, touched>> BY DEF ServerOrphan
<1>3. \A y \in Actor : ActorEvolves(y) BY <1>2, Unmoved
<1>4. CASE UNCHANGED <<issued, root>> BY <1>2, <1>3, <1>4, CalmStep
<1>5. CASE Exchange(g)
  <2>1. g \in Gen /\ g <= issued BY DEF IInv, TypeOK, NotNewer
  <2>2. ASSUME NEW y \in Actor, loc[y].op \in Logins PROVE loc[y].ans # g
    <3>1. loc[y].ans \in Gen BY <2>2, ActorFacts
    <3>. QED BY <3>1 DEF IInv, AnswerFresh
  <2>3. ServerEvolves BY <1>5, <2>1, <2>2, IssueEvolves DEF Exchange
  <2>. QED BY <1>2, <1>3, <2>3 DEF Evolves, FileEvolves, HistoryEvolves, ProcEvolves
<1>. QED BY <1>1, <1>4, <1>5

\* A refused scope: what the command remembers is what is on file.
LEMMA ConsentRequiredEvolves ==
  ASSUME IInv, NEW x \in Cli, ConsentRequired(x) PROVE Evolves
<1>. DEFINE r == [loc[x] EXCEPT !.ans = None, !.sel = loc[x].cf.tok[loc[x].q]]
<1>1. TypeOK /\ x \in Actor /\ x \notin Task BY CredentialsAssumption DEF IInv, Actor
<1>2. r.op = loc[x].op /\ r.ans = None /\ r.sel = loc[x].cf.tok[loc[x].q] /\ r.q = loc[x].q
  BY <1>1 DEF TypeOK, Locals
<1>3. /\ pc[x] = "post" /\ GoTo(x, "consent", r) /\ touched' = touched \ {x}
      /\ UNCHANGED <<file, mem, used, issued, root, ended>>
  BY DEF ConsentRequired, server
<1>. HIDE DEF r
<1>4. loc[x].cf = file /\ Refreshes(x) /\ ProfileOf(x) = loc[x].q
  BY <1>1, <1>3 DEF IInv, LoadedIsCurrent, OpsInPlace, ProfileOf
<1>5. pc'[x] = "consent" /\ loc'[x] = r BY <1>1, <1>3, GoToEffect
<1>6. AnswerEvolves(x) BY <1>2, <1>4, <1>5, Tokens DEF AnswerEvolves, Logins, Refreshes
<1>7. PostEvolves(x) /\ ConsentEvolves(x) BY <1>2, <1>3, <1>4, <1>5 DEF PostEvolves, ConsentEvolves
<1>8. ActorEvolves(x) BY <1>1, <1>6, <1>7 DEF ActorEvolves
<1>9. touched' \subseteq touched BY <1>3
<1>. QED BY <1>1, <1>3, <1>8, <1>9, OneMoves, CalmStep

\* An approved device flow starts a login.
LEMMA ApproveEvolves ==
  ASSUME IInv, NEW x \in Cli, NEW l \in Locals, l.op \in Logins, Approve(x, l),
         UNCHANGED <<file, mem, used, ended, touched>>,
         l.op = "consent" => AwaitsConsent(x) /\ l.sel = loc[x].sel /\ l.q = loc[x].q
  PROVE Evolves
<1>. DEFINE r == [l EXCEPT !.ans = issued + 1]
<1>1. TypeOK /\ x \in Actor /\ x \notin Task BY CredentialsAssumption DEF IInv, Actor
<1>2. r.op = l.op /\ r.ans = issued + 1 /\ r.sel = l.sel /\ r.q = l.q
  BY DEF Locals
<1>3. /\ issued < MaxGen /\ issued' = issued + 1 /\ root' = [root EXCEPT ![issued + 1] = issued + 1]
      /\ root \in [Gen -> Gen \cup {None}] /\ issued \in Gen /\ GoTo(x, "acquire", r)
  BY <1>1 DEF Approve, Issue, TypeOK
<1>. HIDE DEF r
<1>4. issued + 1 \in Gen /\ root'[issued + 1] = issued + 1 BY <1>3 DEF Gen
<1>5. pc'[x] = "acquire" /\ loc'[x] = r BY <1>1, <1>3, GoToEffect
<1>6. ServerEvolves BY <1>3, <1>4 DEF ServerEvolves
<1>7. AnswerEvolves(x) BY <1>2, <1>3, <1>4, <1>5 DEF AnswerEvolves
<1>8. PostEvolves(x) /\ ConsentEvolves(x) BY <1>2, <1>5 DEF PostEvolves, ConsentEvolves
<1>9. ActorEvolves(x) BY <1>1, <1>7, <1>8 DEF ActorEvolves
<1>10. \A y \in Actor : ActorEvolves(y) BY <1>1, <1>3, <1>9, OneMoves
<1>. QED BY <1>6, <1>10 DEF Evolves, FileEvolves, HistoryEvolves, ProcEvolves

\* A login.
LEMMA LoginEvolves ==
  ASSUME IInv, NEW x \in Cli, NEW q \in Profile, Login(x, q) PROVE Evolves
<1>. DEFINE l == [Rest EXCEPT !.op = "login", !.q = q]
<1>1. l \in Locals /\ l.op = "login" BY RestType DEF Locals, AllCommands
<1>2. Approve(x, l) /\ UNCHANGED <<file, mem, used, ended, touched>> BY DEF Login, history
<1>. HIDE DEF l
<1>. QED BY <1>1, <1>2, ApproveEvolves DEF Logins

\* The answer to a consent prompt.
LEMMA ConsentEvolvesStep ==
  ASSUME IInv, NEW x \in Cli, Consent(x) PROVE Evolves
<1>. DEFINE l == [loc[x] EXCEPT !.op = "consent"]
<1>1. TypeOK /\ x \in Actor BY DEF IInv, Actor
<1>2. l \in Locals /\ l.op = "consent" /\ l.sel = loc[x].sel /\ l.q = loc[x].q
  BY <1>1 DEF TypeOK, Locals
<1>3. /\ pc[x] = "consent" /\ UNCHANGED <<file, mem, used, ended, touched>>
      /\ Approve(x, l) \/ (Return(x) /\ UNCHANGED <<issued, root>>)
  BY DEF Consent, history
<1>4. CASE Return(x) /\ UNCHANGED <<issued, root>> BY <1>1, <1>3, <1>4, ReturnEvolves
<1>5. CASE Approve(x, l)
  <2>. HIDE DEF l
  <2>. QED BY <1>2, <1>3, <1>5, ApproveEvolves DEF Logins, AwaitsConsent
<1>. QED BY <1>3, <1>4, <1>5

\* A login or a consent is saved, or not.
LEMMA UpdateProfileEvolves ==
  ASSUME IInv, NEW x \in Cli, UpdateProfile(x) PROVE Evolves
<1>1. TypeOK /\ x \in Actor /\ ProfileOf(x) = loc[x].q
  BY CredentialsAssumption DEF IInv, Actor, ProfileOf
<1>2. /\ pc[x] = "locked" /\ loc[x].op \in Logins /\ Return(x)
      /\ UNCHANGED <<mem, used, issued, root, ended>>
      /\ \/ /\ file' = SetProfile(file, ProfileOf(x), loc[x].ans) /\ Touch(x, ProfileOf(x))
            /\ loc[x].op = "consent" => file.tok[loc[x].q] = loc[x].sel
         \/ UNCHANGED <<file, touched>>
  BY <1>1 DEF UpdateProfile, ConsentStands, server, Logins
<1>3. CASE UNCHANGED <<file, touched>> BY <1>1, <1>2, <1>3, ReturnEvolves
<1>4. CASE /\ file' = SetProfile(file, ProfileOf(x), loc[x].ans) /\ Touch(x, ProfileOf(x))
           /\ loc[x].op = "consent" => file.tok[loc[x].q] = loc[x].sel
  <2>1. ProfileOf(x) \in Profile /\ file \in File /\ loc[x].ans \in Gen
    BY <1>1, <1>2, ActorFacts, TokenFacts
  <2>2. file'.tok[ProfileOf(x)] = loc[x].ans BY <1>4, <2>1, SetProfileEffect
  <2>3. /\ pc'[x] = "idle" /\ \A y \in Actor : y # x => pc'[y] = pc[y] /\ loc'[y] = loc[y]
        /\ \A y \in Actor : ActorEvolves(y)
    BY <1>1, <1>2, ReturnEffect, OneReturns
  <2>4. \A y \in Actor : pc'[y] # "post" BY <1>1, <1>2, <2>3, OthersDoNotPost
  <2>5. FileEvolves BY <1>1, <1>2, <1>4, <2>1, <2>4 DEF FileEvolves
  <2>6. HistoryEvolves BY <1>1, <1>2, <1>4, <2>2, <2>3, TouchEvolves
  <2>. QED BY <1>2, <2>3, <2>5, <2>6 DEF Evolves, ServerEvolves, ProcEvolves
<1>. QED BY <1>2, <1>3, <1>4

\* A logout is recorded, or not.
LEMMA RecordLogoutEvolves ==
  ASSUME IInv, NEW x \in Cli, RecordLogout(x) PROVE Evolves
<1>1. TypeOK /\ x \in Actor BY DEF IInv, Actor
<1>2. /\ UNCHANGED <<file, mem, used, issued, root, ended, touched>>
      /\ Return(x) \/ (pc' = [pc EXCEPT ![x] = "recorded"] /\ UNCHANGED loc)
  BY DEF RecordLogout, server, history
<1>3. CASE Return(x) BY <1>1, <1>2, <1>3, ReturnEvolves
<1>4. CASE pc' = [pc EXCEPT ![x] = "recorded"] /\ UNCHANGED loc
  <2>1. GoTo(x, "recorded", loc[x]) BY <1>1, <1>4 DEF GoTo, TypeOK
  <2>. QED BY <1>2, <2>1, CliEvolves
<1>. QED BY <1>2, <1>3, <1>4

\* A logged-out profile is removed: its login was on file and is no more.
LEMMA RemoveProfileEvolves ==
  ASSUME IInv, NEW x \in Cli, RemoveProfile(x) PROVE Evolves
<1>. DEFINE gone == IF loc[x].op = "logout" THEN {loc[x].q} ELSE Profile
<1>1. TypeOK /\ x \in Actor /\ loc[x].q \in Profile /\ file \in File
  BY LocalsType DEF IInv, Actor, TypeOK
<1>2. /\ pc[x] = "recorded" /\ Return(x) /\ UNCHANGED <<mem, used, issued, root>>
      /\ \/ /\ IF loc[x].op = "logout_all" THEN file' = EmptyFile
               ELSE IF file.tok[loc[x].q] = None THEN file' = file
               ELSE file' \in DeleteProfile(file, loc[x].q)
            /\ ended' = ended \cup {root[file.tok[r]] : r \in {r \in gone : file.tok[r] # None}}
            /\ touched' = touched \cup {y \in Cli \ {x} : AwaitsConsent(y) /\ loc[y].q \in gone}
         \/ UNCHANGED <<file, ended, touched>>
  BY DEF RemoveProfile, server
<1>3. CASE UNCHANGED <<file, ended, touched>> BY <1>1, <1>2, <1>3, ReturnEvolves
<1>4. CASE /\ IF loc[x].op = "logout_all" THEN file' = EmptyFile
              ELSE IF file.tok[loc[x].q] = None THEN file' = file
              ELSE file' \in DeleteProfile(file, loc[x].q)
           /\ ended' = ended \cup {root[file.tok[r]] : r \in {r \in gone : file.tok[r] # None}}
           /\ touched' = touched \cup {y \in Cli \ {x} : AwaitsConsent(y) /\ loc[y].q \in gone}
  <2>1. loc[x].op = "logout" \/ loc[x].op = "logout_all" BY <1>1, <1>2 DEF IInv, OpsInPlace
  <2>2. /\ pc'[x] = "idle" /\ \A y \in Actor : y # x => pc'[y] = pc[y] /\ loc'[y] = loc[y]
        /\ \A y \in Actor : ActorEvolves(y)
    BY <1>1, <1>2, ReturnEffect, OneReturns
  <2>3. \A y \in Actor : pc'[y] # "post" BY <1>1, <1>2, <2>2, OthersDoNotPost
  <2>4. FileEvolves BY <1>1, <1>4, <2>3 DEF FileEvolves
  <2>5. \A r \in gone : r \in Profile /\ file'.tok[r] = None
    BY <1>1, <1>4, <2>1, DeleteProfileType, EmptyFileType
  <2>. HIDE DEF gone
  <2>6. HistoryEvolves BY <1>4, <2>2, <2>5 DEF HistoryEvolves, Actor
  <2>. QED BY <1>2, <2>2, <2>4, <2>6 DEF Evolves, ServerEvolves, ProcEvolves
<1>. QED BY <1>2, <1>3, <1>4

\* A profile is made the default.
LEMMA SetDefaultEvolves ==
  ASSUME IInv, NEW x \in Cli, SetDefault(x) PROVE Evolves
<1>1. TypeOK /\ x \in Actor /\ loc[x].q \in Profile BY LocalsType DEF IInv, Actor
<1>2. /\ Return(x) /\ UNCHANGED <<mem, used, issued, root, ended, touched>>
      /\ \/ file.tok[loc[x].q] # None /\ file' = [file EXCEPT !.default = loc[x].q]
         \/ file' = file
  BY DEF SetDefault, server, history
<1>3. \A y \in Actor : ActorEvolves(y) BY <1>1, <1>2, OneReturns
<1>. QED BY <1>1, <1>2, <1>3 DEF Evolves, ServerEvolves, FileEvolves, HistoryEvolves, ProcEvolves

\* Processes start, read the file again, and end.
LEMMA ProcStepEvolves ==
  ASSUME IInv, NEW p \in Proc, StartProc(p) \/ ReloadState(p) \/ ExitProc(p) PROVE Evolves
<1>1. mem \in [Proc -> Gen \cup {None}] /\ used \in [Proc -> Gen \cup {None}] /\ None \notin Gen
  BY Tokens DEF IInv, TypeOK
<1>2. UNCHANGED <<file, pc, loc, issued, root, ended, touched>>
  BY DEF StartProc, ReloadState, ExitProc, server, history
<1>3. \A y \in Actor : ActorEvolves(y) BY <1>2, Unmoved
<1>4. mem[p] = None => used[p] = None BY <1>1 DEF IInv, UnsavedMem, PrivateTo
<1>5. \A o \in Proc : ProcEvolves(o)
  BY <1>1, <1>2, <1>4 DEF StartProc, ReloadState, ExitProc, ProcEvolves
<1>. QED BY <1>2, <1>3, <1>5 DEF Evolves, ServerEvolves, FileEvolves, HistoryEvolves

\* Processes and commands die.
LEMMA CrashEvolves ==
  ASSUME IInv, (\E p \in Proc : CrashProc(p)) \/ (\E x \in Cli : CrashCli(x)) PROVE Evolves
<1>1. TypeOK /\ OpsInPlace /\ mem \in [Proc -> Gen \cup {None}] /\ used \in [Proc -> Gen \cup {None}]
  BY DEF IInv, TypeOK
<1>2. PICK dead \in SUBSET Actor : Die(dead) BY DEF CrashProc, CrashCli, Actor
<1>3. \A y \in Actor : ActorEvolves(y)
  <2>1. \A y \in Actor : IF y \in dead THEN pc'[y] = "idle" /\ loc'[y] = Rest
                         ELSE pc'[y] = pc[y] /\ loc'[y] = loc[y]
    BY <1>1, <1>2, DieEffect
  <2>. QED BY <2>1, Unmoved, Ended
<1>4. UNCHANGED <<file, issued, root, ended, touched>> BY <1>2 DEF Die
<1>5. \A p \in Proc : ProcEvolves(p) BY <1>1 DEF CrashProc, CrashCli, ProcEvolves
<1>. QED BY <1>3, <1>4, <1>5 DEF Evolves, ServerEvolves, FileEvolves, HistoryEvolves

\* Every step evolves the store.
LEMMA NextEvolves ==
  ASSUME IInv, RetryInv, [Next]_vars PROVE Evolves
<1>1. ASSUME NEW x \in Actor, Step(x) PROVE Evolves
  <2>1. CASE GiveUp(x) \/ RefreshLoggedOut(x) \/ RefreshRefused(x) \/ RefreshLost(x)
    <3>1. Return(x) BY <2>1 DEF GiveUp, RefreshLoggedOut, RefreshRefused, RefreshLost
    <3>2. UNCHANGED <<file, mem, used, issued, root, ended>> /\ touched' \subseteq touched
      BY <2>1 DEF GiveUp, RefreshLoggedOut, RefreshRefused, RefreshLost, server, history
    <3>. QED BY <3>1, <3>2, ReturnEvolves
  <2>. QED
    BY <1>1, <2>1, AcquireEvolves, RefreshAdoptEvolves, RefreshPostEvolves,
       SaveRefreshedEvolves, RefreshNotSavedEvolves, ServerExchangesEvolves,
       ServerRefusesEvolves DEF Step
<1>2. ASSUME NEW t \in Task, BeginRequest(t) \/ TakeLock(t) \/ TaskStep(t) PROVE Evolves
  BY <1>2, TaskEvolves
<1>3. ASSUME NEW x \in Cli, CliStart(x) PROVE Evolves
  <2>1. PICK q \in Profile : Login(x, q) \/ LogoutAll(x) \/ Logout(x, q)
                             \/ RefreshCommand(x, q) \/ Use(x, q)
    BY <1>3, CredentialsAssumption DEF CliStart
  <2>. QED BY <2>1, LoginEvolves, CliStartEvolves
<1>4. ASSUME NEW x \in Cli, CliStep(x) PROVE Evolves
  BY <1>4, ConsentRequiredEvolves, ConsentEvolvesStep, UpdateProfileEvolves,
     RecordLogoutEvolves, RemoveProfileEvolves, SetDefaultEvolves, CliStartEvolves DEF CliStep
<1>5. CASE (\E p \in Proc : CrashProc(p)) \/ (\E x \in Cli : CrashCli(x)) BY <1>5, CrashEvolves
<1>6. ASSUME NEW p \in Proc, StartProc(p) \/ ReloadState(p) \/ ExitProc(p) PROVE Evolves
  BY <1>6, ProcStepEvolves
<1>7. CASE (\E g \in Gen : Age(g) \/ Void(g)) \/ Retire \/ UNCHANGED vars
  <2>1. UNCHANGED <<file, mem, used, pc, loc, issued, root, ended, touched>>
    BY <1>7 DEF Age, Void, Retire, vars, server, history
  <2>. QED BY <2>1, Unmoved, CalmStep
<1>8. CASE ServerOrphan BY <1>8, ServerOrphanEvolves
<1>. QED BY <1>1, <1>2, <1>3, <1>4, <1>5, <1>6, <1>7, <1>8 DEF Next
-----------------------------------------------------------------------------
\* The second invariant, and what it says.

\* The default profile still names a profile on file.
LEMMA DefaultStep == ASSUME IInv, DefaultExists, FileEvolves PROVE DefaultExists'
<1>1. SUFFICES ASSUME NEW r \in Profile, file'.tok[r] # None PROVE file'.tok[file'.default] # None
  BY DEF DefaultExists
<1>2. /\ file \in File /\ file.default \in Profile /\ file.tok \in [Profile -> Gen \cup {None}]
      /\ None \notin Gen /\ \A x \in Actor : ProfileOf(x) \in Profile
  BY TokenFacts, ActorFacts DEF File
<1>3. CASE file' = file BY <1>1, <1>3 DEF DefaultExists
<1>4. ASSUME NEW q \in Profile, file.tok[q] # None, file' = [file EXCEPT !.default = q]
      PROVE file'.tok[file'.default] # None
  BY <1>2, <1>4 DEF File
<1>5. CASE file' = EmptyFile BY <1>1, <1>5, EmptyFileType
<1>6. ASSUME NEW q \in Profile, file' \in DeleteProfile(file, q) PROVE file'.tok[file'.default] # None
  <2>. DEFINE rest == {p \in Profile \ {q} : file.tok[p] # None}
  <2>1. /\ \A p \in Profile : file'.tok[p] = IF p = q THEN None ELSE file.tok[p]
        /\ file'.default \in IF file.default = q /\ rest # {} THEN rest ELSE {file.default}
    BY <1>2, <1>6, DeleteProfileType DEF DeleteProfile
  <2>2. r \in rest BY <1>1, <2>1
  <2>3. file.tok[file.default] # None BY <2>2 DEF DefaultExists
  <2>. QED BY <1>2, <2>1, <2>2, <2>3
<1>7. ASSUME NEW q \in Profile, NEW g \in Gen, file' = SetProfile(file, q, g)
      PROVE file'.tok[file'.default] # None
  BY <1>2, <1>7 DEF SetProfile
<1>. QED BY <1>2, <1>3, <1>4, <1>5, <1>6, <1>7 DEF FileEvolves

\* What is known of the lineage of tokens, of the commands that wait for
\* consent, of the retries and of the default.
StoreInv == Lineage /\ ConsentInv /\ RetryInv /\ DefaultExists

\* It holds initially.
LEMMA StoreInit == Init => StoreInv
<1>. SUFFICES ASSUME Init PROVE StoreInv OBVIOUS
<1>1. /\ \A q \in Profile : file.tok[q] = IF q = Default THEN 1 ELSE None
      /\ file.default = Default
      /\ \A p \in Proc : mem[p] = None /\ used[p] = None
      /\ \A x \in Actor : pc[x] = "idle" /\ loc[x] = Rest
      /\ issued = 1 /\ ended = {}
      /\ \A g \in Gen : root[g] = IF g = 1 THEN 1 ELSE None
  BY DEF Init
<1>2. 1 \in Gen /\ None = 0 /\ None \notin Gen /\ \A g \in Gen : g \in Nat /\ g # 0
  BY Tokens, CredentialsAssumption DEF Gen
<1>3. Roots
  <2>1. \A g \in Gen : g <= 1 => g = 1 BY <1>2
  <2>2. 1 \in 1 .. 1 OBVIOUS
  <2>. QED BY <1>1, <1>2, <2>1, <2>2 DEF Roots
<1>4. OneLogin /\ LoggedOutStaysOut BY <1>1 DEF OneLogin, LoggedOutStaysOut
<1>5. NewLogin /\ SameLogin /\ UnsavedLogin
  BY <1>1, RestFields DEF NewLogin, SameLogin, UnsavedLogin, Logins, Actor
<1>6. ConsentInv BY <1>1, RestFields DEF ConsentInv, AwaitsConsent, Actor
<1>7. RetryInv BY <1>1, <1>2, RestFields, RestMore DEF RetryInv, Actor
<1>8. DefaultExists BY <1>1, <1>2 DEF DefaultExists
<1>. QED BY <1>3, <1>4, <1>5, <1>6, <1>7, <1>8 DEF StoreInv, Lineage

\* Every step preserves it.
LEMMA StoreStep == IInv /\ StoreInv /\ [Next]_vars => StoreInv'
<1>. SUFFICES ASSUME IInv, StoreInv, [Next]_vars PROVE StoreInv' OBVIOUS
<1>1. IInv' BY IInvStep
<1>2. Evolves BY NextEvolves DEF StoreInv
<1>3. Lineage' BY <1>2, LineageStep DEF StoreInv
<1>4. ConsentInv' BY <1>1, <1>2, ConsentInvStep DEF StoreInv
<1>5. RetryInv' BY <1>1, <1>2, RetryInvStep DEF StoreInv
<1>6. DefaultExists' BY <1>2, DefaultStep DEF StoreInv, Evolves
<1>. QED BY <1>3, <1>4, <1>5, <1>6 DEF StoreInv

\* Every token descends from the login it should, a consent waits for what was
\* on file, and a retry for another token than the rejected one, for every
\* number of processes, requests and commands.
THEOREM StoreInductive == Spec => []StoreInv
BY Inductive, StoreInit, StoreStep, PTL DEF Spec

\* A login that was logged out never comes back to the file: no refresh queued
\* or under way and no process that still holds it puts it back (auth_logout,
\* refresh_profile_locked).
THEOREM LogoutIsFinal == Spec => []LoggedOutStaysOut
<1>1. StoreInv => LoggedOutStaysOut BY DEF StoreInv, Lineage
<1>. QED BY <1>1, StoreInductive, PTL

\* With any profile on file, the default names one of them (CredentialsFile).
THEOREM DefaultKept == Spec => []DefaultExists
<1>1. StoreInv => DefaultExists BY DEF StoreInv
<1>. QED BY <1>1, StoreInductive, PTL

\* A client with the only copy of a rotated credential never sends the used-up
\* token on file, and a retry never carries the token that was rejected
\* (_refresh_locked, KaguraOAuth.force_refresh).
THEOREM TokensAreRight == Spec => []RightToken
<1>1. IInv /\ StoreInv => RightToken
  <2>. SUFFICES ASSUME IInv, StoreInv PROVE RightToken OBVIOUS
  <2>1. UnsavedCopyWins
    BY CredentialsAssumption DEF UnsavedCopyWins, StoreInv, RetryInv
  <2>2. RetryWithAnotherToken BY DEF RetryWithAnotherToken, StoreInv, RetryInv
  <2>. QED BY <2>1, <2>2 DEF RightToken
<1>. QED BY <1>1, Inductive, StoreInductive, PTL

\* A write of the file takes no profile back to an older token of its login.
LEMMA WriteIsNewer == ASSUME IInv, Lineage, Evolves PROVE NoStaleWriteBack
<1>1. SUFFICES ASSUME NEW q \in Profile, file.tok[q] # None, file'.tok[q] # None, file.tok[q] # file'.tok[q]
               PROVE IF root'[file'.tok[q]] = root[file.tok[q]] THEN file'.tok[q] > file.tok[q]
                     ELSE root'[file'.tok[q]] = file'.tok[q]
  BY DEF NoStaleWriteBack
<1>2. PICK x \in Actor :
        /\ loc[x].ans \in Gen
        /\ pc[x] = "post" \/ loc[x].op \in Logins
        /\ q = ProfileOf(x) /\ file'.tok[q] = loc[x].ans
  BY <1>1, FileEvolvesTo DEF Evolves
<1>3. root'[loc[x].ans] = root[loc[x].ans] BY <1>2, FileRoots
<1>4. file.tok[q] \in Gen /\ file.tok[q] \in Nat /\ loc[x].ans \in Nat BY <1>1, <1>2, TokenFacts
<1>5. CASE pc[x] = "post"
  <2>1. /\ root[loc[x].ans] = root[file.tok[q]] /\ loc[x].ans > loc[x].sel
        /\ loc[x].sel >= file.tok[q]
    BY <1>2, <1>5 DEF Lineage, SameLogin
  <2>2. loc[x].sel \in Nat BY <1>5, ActorFacts, TokenFacts
  <2>. QED BY <1>2, <1>3, <1>4, <2>1, <2>2
<1>6. CASE loc[x].op \in Logins
  BY <1>1, <1>2, <1>3, <1>4, <1>6 DEF Lineage, NewLogin
<1>. QED BY <1>2, <1>5, <1>6

\* A write of the file changes one profile, or is the one of `logout --all`.
LEMMA WriteIsOne == ASSUME IInv, FileEvolves PROVE OtherProfilesKept
<1>1. file \in File /\ Default \in Profile /\ \A x \in Actor : ProfileOf(x) \in Profile
  BY TokenFacts, ActorFacts, CredentialsAssumption
<1>2. ASSUME NEW q \in Profile, file' = [file EXCEPT !.default = q] PROVE OtherProfilesKept
  <2>1. file'.tok = file.tok BY <1>1, <1>2 DEF File
  <2>. QED BY <2>1, <1>1 DEF OtherProfilesKept
<1>3. ASSUME NEW q \in Profile, file' \in DeleteProfile(file, q) PROVE OtherProfilesKept
  <2>1. \A r \in Profile \ {q} : file'.tok[r] = file.tok[r] BY <1>1, <1>3, DeleteProfileType
  <2>. QED BY <2>1 DEF OtherProfilesKept
<1>4. ASSUME NEW x \in Actor, file' = SetProfile(file, ProfileOf(x), loc[x].ans) PROVE OtherProfilesKept
  <2>1. \A r \in Profile \ {ProfileOf(x)} : file'.tok[r] = file.tok[r] BY <1>1, <1>4, SetProfileEffect
  <2>. QED BY <2>1, <1>1 DEF OtherProfilesKept
<1>5. CASE file' = file BY <1>1, <1>5 DEF OtherProfilesKept
<1>6. CASE file' = EmptyFile BY <1>6 DEF OtherProfilesKept
<1>. QED BY <1>2, <1>3, <1>4, <1>5, <1>6 DEF FileEvolves

\* Every write of credentials.json leaves the newest login of every profile
\* (SaveRefreshed, UpdateProfile and RemoveProfile, under the lock).
THEOREM NothingIsTakenBack == Spec => WritesKeepNewer
<1>1. IInv /\ StoreInv /\ [Next]_vars => [NoStaleWriteBack /\ OtherProfilesKept]_vars
  BY NextEvolves, WriteIsNewer, WriteIsOne DEF StoreInv, Evolves
<1>. QED BY <1>1, Inductive, StoreInductive, PTL DEF Spec, WritesKeepNewer

\* A consent is saved only over the very profile it was asked for
\* (update_profile with a ConsentSnapshot).
THEOREM ConsentIsCurrent == Spec => ConsentNotStale
<1>. DEFINE Saved(x) == /\ pc[x] = "locked" /\ loc[x].op = "consent"
                        /\ file'.tok[loc[x].q] = loc[x].ans
<1>1. ASSUME IInv, StoreInv, [Next]_vars, NEW x \in Cli, Saved(x) PROVE x \notin touched
  <2>1. x \in Actor /\ x \notin Task BY CredentialsAssumption DEF Actor
  <2>2. loc[x].ans \in Gen /\ ProfileOf(x) = loc[x].q /\ loc[x].q \in Profile
    BY <1>1, <2>1, ActorFacts DEF Logins, ProfileOf
  <2>3. file.tok[loc[x].q] # loc[x].ans BY <1>1, <2>1, <2>2, ActorFacts
  <2>4. Evolves BY <1>1, NextEvolves DEF StoreInv
  <2>5. PICK z \in Actor : /\ loc[z].ans = loc[x].ans
                           /\ loc[z].op = "consent" => file.tok[loc[z].q] = loc[z].sel
    BY <1>1, <2>2, <2>3, <2>4, FileEvolvesTo, TokenFacts DEF Evolves
  <2>6. z = x BY <2>1, <2>2, <2>5, <1>1 DEF IInv, AnswerFresh
  <2>. QED BY <1>1, <2>5, <2>6 DEF StoreInv, ConsentInv, AwaitsConsent
<1>2. IInv /\ StoreInv /\ [Next]_vars => [\A x \in Cli : Saved(x) => x \notin touched]_vars
  BY <1>1
<1>. QED BY <1>2, Inductive, StoreInductive, PTL DEF Spec, ConsentNotStale
=============================================================================
