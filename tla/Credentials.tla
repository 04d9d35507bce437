---------------------------- MODULE Credentials -----------------------------
(***************************************************************************)
(* credentials.json as every process of the SDK uses it: long-lived        *)
(* clients (KaguraClient, the REST clients, kagura-mcp) that refresh the   *)
(* token of one profile through KaguraOAuth, and the commands of           *)
(* `kagura auth` that log in, log out, refresh and select profiles.        *)
(*                                                                         *)
(* A credential is the number of the token response it came from: the      *)
(* access and the refresh token of one response are modelled together.     *)
(* The token server (memory-cloud) is external: it answers one response    *)
(* per refresh token, which then, with its access token, is used up.  The  *)
(* lock on the file is the one of Mutex, which FileLock implements.        *)
(***************************************************************************)
EXTENDS Integers, FiniteSets

CONSTANTS
  Profile,      \* profile names
  Default,      \* the name a missing file stands for ("default")
  Proc,         \* long-lived processes
  Task,         \* concurrent requests of those processes
  Cli,          \* one-off `kagura auth` processes
  TaskProc,     \* the process each task runs in
  ProcProfile,  \* the profile each process resolved
  Commands,     \* the `kagura auth` commands that may run
  Faults,       \* what may go wrong (below)
  MaxGen,       \* bound on token responses in one behaviour
  NoOne,        \* no task holds the in-process lock
  Free, Abandoned

Actor == Task \cup Cli
AllCommands == {"login", "logout", "logout_all", "refresh", "token", "scope", "use"}
AllFaults ==
  {"lost",      \* a refresh gets no answer, or is cancelled waiting for it
   "unsaved",   \* credentials.json cannot be written (OSError)
   "crash",     \* a process dies anywhere
   "offline",   \* a revocation does not reach the server
   "void"}      \* the server stops accepting an access token

ASSUME CredentialsAssumption ==
  /\ Default \in Profile
  /\ Task \cap Cli = {}
  /\ TaskProc \in [Task -> Proc]
  /\ ProcProfile \in [Proc -> Profile]
  /\ Commands \subseteq AllCommands
  /\ Faults \subseteq AllFaults
  /\ MaxGen \in Nat \ {0}
  /\ NoOne \notin Task
  /\ Free \notin Actor /\ Abandoned \notin Actor /\ Free # Abandoned

VARIABLES
  file,     \* credentials.json: the token of each profile, and default_profile
  tomb,     \* .revocations-v1: profiles recorded as logged out
  holder,   \* the lock-v1 marker
  mem,      \* _SharedCredentialsState.credentials of each process, None if none
  used,     \* _SharedCredentialsState.used_refresh_token
  alock,    \* the asyncio.Lock of each process
  pc, loc,  \* where each actor is, and its local variables
  issued,   \* server: number of token responses so far
  live,     \* server: credentials whose refresh token works
  void,     \* server: credentials whose access token it refuses all the same
  orphans,  \* server: refresh tokens of requests nobody waits for any more
  stale,    \* access tokens inside the skew window of their expiry
  root,     \* history: the login each credential descends from
  spent,    \* history: refresh tokens the server exchanged
  reused,   \* history: refresh tokens sent again after that
  faulted,  \* history: refresh tokens whose exchange was hit by a fault
  ended,    \* history: logins that were logged out
  touched   \* history: commands waiting for consent whose profile changed

server == <<issued, live, void, orphans, stale, root>>
history == <<spent, reused, faulted, ended, touched>>
vars == <<file, tomb, holder, mem, used, alock, pc, loc, server, history>>

Lock == INSTANCE Mutex WITH Client <- Actor

None == 0
Gen  == 1..MaxGen
Refused      == -1   \* invalid_grant
ScopeRefused == -2   \* invalid_scope / insufficient_scope

File == [tok : [Profile -> Gen \cup {None}], default : Profile]
EmptyFile == [tok |-> [q \in Profile |-> None], default |-> Default]

\* The local variables of an actor: the command or refresh path it runs, its
\* profile, the access token a request carries, the rejected token a forced
\* refresh captured, the caller's copy and used-up token it passes, the token
\* it refreshes from, the server's answer, the file it loaded, the profiles
\* still to revoke, and whether its request was already retried.
Rest == [op |-> "none", q |-> Default, tok |-> None, rej |-> None, fb |-> None,
         ub |-> None, sel |-> None, ans |-> None, cf |-> EmptyFile,
         todo |-> {}, again |-> FALSE]

Locals == [op : {"none", "skew", "force", "consent"} \cup AllCommands,
           q : Profile, tok : Gen \cup {None}, rej : Gen \cup {None},
           fb : Gen \cup {None}, ub : Gen \cup {None}, sel : Gen \cup {None},
           ans : Gen \cup {None, Refused, ScopeRefused}, cf : File,
           todo : SUBSET Profile, again : BOOLEAN]

PCs == {"idle", "await_lock", "acquire", "locked", "post", "sent",
        "revoke", "recorded", "consent"}

\* The profile an actor works on.
ProfileOf(x) == IF x \in Task THEN ProcProfile[TaskProc[x]] ELSE loc[x].q

Init ==
  /\ file = [tok |-> [q \in Profile |-> IF q = Default THEN 1 ELSE None],
             default |-> Default]
  /\ tomb = {}
  /\ Lock!Init
  /\ mem = [p \in Proc |-> None]
  /\ used = [p \in Proc |-> None]
  /\ alock = [p \in Proc |-> NoOne]
  /\ pc = [x \in Actor |-> "idle"]
  /\ loc = [x \in Actor |-> Rest]
  /\ issued = 1 /\ live = {1} /\ void = {} /\ orphans = {} /\ stale = {}
  /\ root = [g \in Gen |-> IF g = 1 THEN 1 ELSE None]
  /\ spent = {} /\ reused = {} /\ faulted = {} /\ ended = {} /\ touched = {}
-----------------------------------------------------------------------------
(* The file (CredentialsFile).                                             *)

\* set_profile: the first profile becomes the default.
SetProfile(cf, q, g) ==
  [tok |-> [cf.tok EXCEPT ![q] = g],
   default |-> IF cf.default # q /\ cf.tok[cf.default] = None THEN q ELSE cf.default]

\* delete_profile: the default moves to a remaining profile, if there is one.
DeleteProfile(cf, q) ==
  LET rest == {r \in Profile \ {q} : cf.tok[r] # None} IN
  {[tok |-> [cf.tok EXCEPT ![q] = None], default |-> d] :
     d \in IF cf.default = q /\ rest # {} THEN rest ELSE {cf.default}}

\* Commands between the refusal of a scope and the save of the consent.
AwaitsConsent(x) == pc[x] = "consent" \/ loc[x].op = "consent"

\* Writer w changes profile q while others wait for consent to change it.
Touch(w, q) ==
  touched' = touched \cup {x \in Cli \ {w} : AwaitsConsent(x) /\ loc[x].q = q}
-----------------------------------------------------------------------------
(* Control that several handlers share.                                    *)

GoTo(x, l, r) == /\ pc' = [pc EXCEPT ![x] = l]
                 /\ loc' = [loc EXCEPT ![x] = r]

\* The locks of the processes after x leaves its `async with` block.
Unlocked(x) == [p \in Proc |-> IF alock[p] = x THEN NoOne ELSE alock[p]]

\* A call ends: it returns, or its exception reaches the caller.
Return(x) == GoTo(x, "idle", Rest) /\ alock' = Unlocked(x)

\* A refresh ended with credential g in force.  A task stores it in the shared
\* state and goes on: a skew refresh with its request, a forced one with the
\* retry, which goes through the auth flow again.  A command is done.
Adopt(x, g) ==
  IF x \in Task
  THEN LET p == TaskProc[x] IN
       /\ mem' = [mem EXCEPT ![p] = g]
       /\ used' = [used EXCEPT ![p] = None]
       /\ alock' = Unlocked(x)
       /\ IF loc[x].op = "skew"
          THEN GoTo(x, "sent", [Rest EXCEPT !.tok = g, !.rej = loc[x].rej,
                                            !.again = loc[x].again])
          ELSE GoTo(x, "await_lock", [Rest EXCEPT !.op = "skew", !.again = TRUE,
                                                  !.rej = loc[x].rej])
  ELSE Return(x) /\ UNCHANGED <<mem, used>>
-----------------------------------------------------------------------------
(* Long-lived processes.                                                   *)

\* get_shared_state, first call of a process: without the profile on file the
\* process has no OAuth credentials and resolves others.
StartProc(p) ==
  /\ mem[p] = None
  /\ file.tok[ProcProfile[p]] # None
  /\ mem' = [mem EXCEPT ![p] = file.tok[ProcProfile[p]]]
  /\ UNCHANGED <<file, tomb, holder, used, alock, pc, loc, server, history>>

\* get_shared_state, later calls (another client is built): what is on file
\* replaces the shared credentials unless this process used its token up.
\* It runs without any lock.
ReloadState(p) ==
  LET g == file.tok[ProcProfile[p]] IN
  /\ mem[p] # None
  /\ g # None
  /\ used[p] # g
  /\ mem' = [mem EXCEPT ![p] = g]
  /\ used' = [used EXCEPT ![p] = None]
  /\ <<mem', used'>> # <<mem, used>>
  /\ UNCHANGED <<file, tomb, holder, alock, pc, loc, server, history>>

\* The process ends between two requests.
ExitProc(p) ==
  /\ mem[p] # None
  /\ \A t \in Task : TaskProc[t] = p => pc[t] = "idle"
  /\ mem' = [mem EXCEPT ![p] = None]
  /\ used' = [used EXCEPT ![p] = None]
  /\ UNCHANGED <<file, tomb, holder, alock, pc, loc, server, history>>

\* async_auth_flow of a new request starts with _maybe_refresh.
BeginRequest(t) ==
  /\ pc[t] = "idle"
  /\ mem[TaskProc[t]] # None
  /\ GoTo(t, "await_lock", [Rest EXCEPT !.op = "skew"])
  /\ UNCHANGED <<file, tomb, holder, mem, used, alock, server, history>>

\* The in-process lock is free.  _maybe_refresh sends the request when the
\* token in memory is outside the skew window; otherwise, and always after a
\* 401, _refresh_locked starts with what the shared state holds now.
TakeLock(t) ==
  LET p == TaskProc[t] IN
  /\ pc[t] = "await_lock"
  /\ alock[p] = NoOne
  /\ IF loc[t].op = "skew" /\ mem[p] \notin stale
     THEN /\ GoTo(t, "sent", [loc[t] EXCEPT !.op = "none", !.tok = mem[p]])
          /\ UNCHANGED alock
     ELSE /\ GoTo(t, "acquire", [loc[t] EXCEPT !.fb = mem[p], !.ub = used[p]])
          /\ alock' = [alock EXCEPT ![p] = t]
  /\ UNCHANGED <<file, tomb, holder, mem, used, server, history>>

\* The upstream accepts the request, or refuses its access token.  kagura-mcp
\* then forces one refresh, capturing the rejected token from the shared state;
\* other clients, and a second 401, pass the refusal on.
Accepted(t) ==
  /\ pc[t] = "sent"
  /\ loc[t].tok \in live \ void
  /\ GoTo(t, "idle", Rest)
  /\ UNCHANGED <<file, tomb, holder, mem, used, alock, server, history>>

Unauthorized(t) ==
  /\ pc[t] = "sent"
  /\ loc[t].tok \notin live \/ loc[t].tok \in void \cup stale
  /\ \/ GoTo(t, "idle", Rest)
     \/ /\ ~loc[t].again
        /\ GoTo(t, "await_lock",
                [Rest EXCEPT !.op = "force", !.rej = mem[TaskProc[t]]])
  /\ UNCHANGED <<file, tomb, holder, mem, used, alock, server, history>>
-----------------------------------------------------------------------------
(* The cross-process lock, from any caller.                                *)

Acquire(x) ==
  /\ pc[x] = "acquire"
  /\ Lock!Acquire(x)
  /\ pc' = [pc EXCEPT ![x] = "locked"]
  /\ UNCHANGED <<file, tomb, mem, used, alock, loc, server, history>>

\* Mutant: a waiter has no deadline.
GiveUpNever(x) == pc[x] = "acquire" /\ FALSE

\* The marker is there and the deadline passes, or the waiter is cancelled.
GiveUp(x) ==
  /\ pc[x] = "acquire"
  /\ holder # Free
  /\ Return(x)
  /\ touched' = touched \ {x}
  /\ UNCHANGED <<file, tomb, holder, mem, used, server, spent, reused, faulted, ended>>

\* _release: a marker that is somebody else's by now is left alone.
Release(x) == IF holder = x THEN Lock!Release(x) ELSE UNCHANGED holder
-----------------------------------------------------------------------------
(* refresh_profile_locked, under the lock.                                 *)

Refreshes(x) == loc[x].op \in {"skew", "force", "refresh", "token", "scope"}
OnFile(x) == file.tok[ProfileOf(x)]

\* Mutant: what the caller knows to be used up is not looked at.
DiskIgnoresUsed(x) == OnFile(x)

\* The file's token, unless the caller knows it to be used up.
Disk(x) == IF OnFile(x) # None /\ loc[x].ub = OnFile(x) THEN None ELSE OnFile(x)

\* Mutant: a forced refresh is skipped for any token outside the skew window.
AlreadyRotatedFresh(x) ==
  Disk(x) # None /\ loc[x].op # "scope" /\ Disk(x) \notin stale

\* Another process already produced a usable token.
AlreadyRotated(x) ==
  /\ Disk(x) # None
  /\ loc[x].op # "scope"
  /\ IF loc[x].op \in {"skew", "token"}
     THEN Disk(x) \notin stale
     ELSE Disk(x) # loc[x].rej

\* Mutant: no record of logouts is consulted.
LoggedOutForgotten(x) == FALSE /\ x \in Actor

LoggedOut(x) == OnFile(x) = None /\ ProfileOf(x) \in tomb

RefreshLoggedOut(x) ==
  /\ pc[x] = "locked" /\ Refreshes(x)
  /\ LoggedOut(x)
  /\ Release(x)
  /\ Return(x)
  /\ UNCHANGED <<file, tomb, mem, used, server, history>>

RefreshAdopt(x) ==
  /\ pc[x] = "locked" /\ Refreshes(x)
  /\ AlreadyRotated(x)
  /\ Release(x)
  /\ Adopt(x, Disk(x))
  /\ UNCHANGED <<file, tomb, server, history>>

\* Mutant: the refresh starts from the caller's copy instead of the file's.
RefreshPostFromMemory(x) ==
  LET sel == loc[x].fb IN
  /\ pc[x] = "locked" /\ Refreshes(x)
  /\ ~LoggedOut(x)
  /\ ~AlreadyRotated(x)
  /\ GoTo(x, "post", [loc[x] EXCEPT !.sel = sel, !.cf = file, !.ans = None])
  /\ reused' = IF sel \in spent THEN reused \cup {sel} ELSE reused
  /\ UNCHANGED <<file, tomb, holder, mem, used, alock, server, spent, faulted, ended, touched>>

\* Mutant: the lock guards the read only, not the exchange and the save.
RefreshPostUnlocked(x) ==
  LET sel == IF Disk(x) # None THEN Disk(x) ELSE loc[x].fb IN
  /\ pc[x] = "locked" /\ Refreshes(x)
  /\ ~LoggedOut(x)
  /\ ~AlreadyRotated(x)
  /\ GoTo(x, "post", [loc[x] EXCEPT !.sel = sel, !.cf = file, !.ans = None])
  /\ reused' = IF sel \in spent THEN reused \cup {sel} ELSE reused
  /\ Release(x)
  /\ UNCHANGED <<file, tomb, mem, used, alock, server, spent, faulted, ended, touched>>

\* _network_refresh: the POST goes out, with the lock held.
RefreshPost(x) ==
  LET sel == IF Disk(x) # None THEN Disk(x) ELSE loc[x].fb IN
  /\ pc[x] = "locked" /\ Refreshes(x)
  /\ ~LoggedOut(x)
  /\ ~AlreadyRotated(x)
  /\ GoTo(x, "post", [loc[x] EXCEPT !.sel = sel, !.cf = file, !.ans = None])
  /\ reused' = IF sel \in spent THEN reused \cup {sel} ELSE reused
  /\ UNCHANGED <<file, tomb, holder, mem, used, alock, server, spent, faulted, ended, touched>>

\* The answer arrives and the profile is saved, in the file loaded before.
SaveRefreshed(x) ==
  LET q == ProfileOf(x) IN
  /\ pc[x] = "post" /\ loc[x].ans \in Gen
  /\ file' = SetProfile(loc[x].cf, q, loc[x].ans)
  /\ Release(x)
  /\ Adopt(x, loc[x].ans)
  /\ Touch(x, q)
  /\ UNCHANGED <<tomb, server, spent, reused, faulted, ended>>

\* The save fails: a client keeps the only copy and remembers which token on
\* file is used up (_RefreshNotSavedError); the caller gets the error.
RefreshNotSaved(x) ==
  LET q == ProfileOf(x) IN
  /\ "unsaved" \in Faults
  /\ pc[x] = "post" /\ loc[x].ans \in Gen
  /\ IF x \in Task
     THEN LET p == TaskProc[x] IN
          /\ mem' = [mem EXCEPT ![p] = loc[x].ans]
          /\ used' = [used EXCEPT ![p] = loc[x].cf.tok[q]]
     ELSE UNCHANGED <<mem, used>>
  /\ Release(x)
  /\ Return(x)
  /\ faulted' = faulted \cup {loc[x].sel}
  /\ UNCHANGED <<file, tomb, server, spent, reused, ended, touched>>

\* invalid_grant, or another refusal that no consent can lift.
RefreshRefused(x) ==
  /\ pc[x] = "post" /\ loc[x].ans = Refused
  /\ Release(x)
  /\ Return(x)
  /\ UNCHANGED <<file, tomb, mem, used, server, history>>

\* No answer comes: a connection error, or the caller cancels.  The request
\* may still reach the server later.
RefreshLost(x) ==
  /\ "lost" \in Faults
  /\ pc[x] = "post"
  /\ Release(x)
  /\ Return(x)
  /\ faulted' = faulted \cup {loc[x].sel}
  /\ orphans' \in IF loc[x].ans = None THEN {orphans, orphans \cup {loc[x].sel}}
                  ELSE {orphans}
  /\ UNCHANGED <<file, tomb, mem, used, issued, live, void, stale, root,
                 spent, reused, ended, touched>>

\* A wider scope is refused: _run_refresh asks for consent, after the lock is
\* released, and remembers the tokens the file held (ConsentSnapshot).
ConsentRequired(x) ==
  /\ pc[x] = "post" /\ loc[x].ans = ScopeRefused
  /\ Release(x)
  /\ GoTo(x, "consent", [loc[x] EXCEPT !.ans = None, !.sel = loc[x].cf.tok[loc[x].q]])
  /\ touched' = touched \ {x}
  /\ UNCHANGED <<file, tomb, mem, used, alock, server, spent, reused, faulted, ended>>
-----------------------------------------------------------------------------
(* The token server (external).                                            *)

\* A new token response; g descends from login r.
Issue(r) == /\ issued < MaxGen
            /\ issued' = issued + 1
            /\ root' = [root EXCEPT ![issued + 1] = r]

\* The server exchanges refresh token g, which works once.
Exchange(g) == /\ g \in live
               /\ Issue(root[g])
               /\ live' = (live \ {g}) \cup {issued + 1}
               /\ spent' = spent \cup {g}

ServerExchanges(x) ==
  /\ pc[x] = "post" /\ loc[x].ans = None
  /\ Exchange(loc[x].sel)
  /\ loc' = [loc EXCEPT ![x].ans = issued + 1]
  /\ UNCHANGED <<file, tomb, holder, mem, used, alock, pc, void, orphans, stale,
                 reused, faulted, ended, touched>>

\* A used or revoked refresh token earns invalid_grant (and so does every one
\* when MaxGen is reached); a scope the grant does not cover is refused.
ServerRefuses(x) ==
  /\ pc[x] = "post" /\ loc[x].ans = None
  /\ \/ /\ loc[x].sel \notin live \/ issued = MaxGen
        /\ loc' = [loc EXCEPT ![x].ans = Refused]
     \/ /\ loc[x].sel \in live /\ loc[x].op = "scope"
        /\ loc' = [loc EXCEPT ![x].ans = ScopeRefused]
  /\ UNCHANGED <<file, tomb, holder, mem, used, alock, pc, server, history>>

\* A request nobody waits for any more reaches the server.
ServerOrphan ==
  \E g \in orphans :
    /\ \/ Exchange(g)
       \/ g \notin live /\ UNCHANGED <<issued, live, root, spent>>
    /\ orphans' = orphans \ {g}
    /\ UNCHANGED <<file, tomb, holder, mem, used, alock, pc, loc, void, stale,
                   reused, faulted, ended, touched>>

\* An access token gets close to its expiry, or is refused for another reason.
Age(g) ==
  /\ g \notin stale
  /\ g \in {file.tok[q] : q \in Profile} \cup {mem[p] : p \in Proc}
  /\ stale' = stale \cup {g}
  /\ UNCHANGED <<file, tomb, holder, mem, used, alock, pc, loc, issued, live,
                 void, orphans, root, history>>

Void(g) ==
  /\ "void" \in Faults
  /\ g \in live \ void
  /\ void' = void \cup {g}
  /\ UNCHANGED <<file, tomb, holder, mem, used, alock, pc, loc, issued, live,
                 orphans, stale, root, history>>
-----------------------------------------------------------------------------
(* `kagura auth`.                                                          *)

\* The user approves a device flow: a token response of a new login.
Approve(x, l) == /\ Issue(issued + 1)
                 /\ live' = live \cup {issued + 1}
                 /\ GoTo(x, "acquire", [l EXCEPT !.ans = issued + 1])

\* _run_login, up to the token response.  (check_login_credentials takes and
\* releases the lock before, and changes nothing.)
Login(x, q) ==
  /\ pc[x] = "idle" /\ "login" \in Commands
  /\ Approve(x, [Rest EXCEPT !.op = "login", !.q = q])
  /\ UNCHANGED <<file, tomb, holder, mem, used, alock, void, orphans, stale, history>>

\* auth_logout reads the file without the lock, to know what to revoke.
Logout(x, q) ==
  /\ pc[x] = "idle" /\ "logout" \in Commands
  /\ file.tok[q] # None
  /\ GoTo(x, "revoke", [Rest EXCEPT !.op = "logout", !.q = q, !.cf = file,
                                     !.todo = {q}])
  /\ UNCHANGED <<file, tomb, holder, mem, used, alock, server, history>>

LogoutAll(x) ==
  LET all == {q \in Profile : file.tok[q] # None} IN
  /\ pc[x] = "idle" /\ "logout_all" \in Commands
  /\ all # {}
  /\ GoTo(x, "revoke", [Rest EXCEPT !.op = "logout_all", !.cf = file, !.todo = all])
  /\ UNCHANGED <<file, tomb, holder, mem, used, alock, server, history>>

\* revoke_token, best effort, one profile after the other.
Revoke(x, q) ==
  LET g == loc[x].cf.tok[q]
      left == loc[x].todo \ {q} IN
  /\ pc[x] = "revoke" /\ q \in loc[x].todo
  /\ \/ live' = live \ {g}
     \/ "offline" \in Faults /\ live' = live
  /\ GoTo(x, IF left = {} THEN "acquire" ELSE "revoke", [loc[x] EXCEPT !.todo = left])
  /\ UNCHANGED <<file, tomb, holder, mem, used, alock, issued, void, orphans,
                 stale, root, history>>

\* auth_refresh and auth_token read the profile without the lock.
RefreshCommand(x, q) ==
  LET g == file.tok[q] IN
  /\ pc[x] = "idle" /\ g # None
  /\ \E op \in Commands \cap {"refresh", "token", "scope"} :
       /\ op = "token" => g \in stale
       /\ GoTo(x, "acquire", [Rest EXCEPT !.op = op, !.q = q, !.fb = g,
                                 !.rej = IF op = "token" THEN None ELSE g])
  /\ UNCHANGED <<file, tomb, holder, mem, used, alock, server, history>>

\* The user answers the consent prompt, or lets it expire.
Consent(x) ==
  /\ pc[x] = "consent"
  /\ \/ /\ Approve(x, [loc[x] EXCEPT !.op = "consent"])
        /\ UNCHANGED alock
     \/ Return(x) /\ UNCHANGED <<issued, live, root>>
  /\ UNCHANGED <<file, tomb, holder, mem, used, void, orphans, stale, history>>

Use(x, q) ==
  /\ pc[x] = "idle" /\ "use" \in Commands
  /\ file.tok[q] # None
  /\ GoTo(x, "acquire", [Rest EXCEPT !.op = "use", !.q = q])
  /\ UNCHANGED <<file, tomb, holder, mem, used, alock, server, history>>

\* Mutant: a logout is noticed, another change of the profile is not.
ConsentStandsUnlessGone(x) ==
  file.tok[loc[x].q] = None => loc[x].q \notin tomb

\* The check of update_profile when it saves a consent: the profile was not
\* logged out, and the file holds the tokens it held when consent was asked.
ConsentStands(x) ==
  /\ file.tok[loc[x].q] = None => loc[x].q \notin tomb
  /\ file.tok[loc[x].q] = loc[x].sel

\* update_profile after a login or a consent: load, check, save.  A refused
\* consent or a failing save raises and drops the token response.
UpdateProfile(x) ==
  LET q == loc[x].q
      stands == loc[x].op = "consent" => ConsentStands(x) IN
  /\ pc[x] = "locked" /\ loc[x].op \in {"login", "consent"}
  /\ \/ stands /\ file' = SetProfile(file, q, loc[x].ans) /\ Touch(x, q)
     \/ (stands => "unsaved" \in Faults) /\ UNCHANGED <<file, touched>>
  /\ Release(x)
  /\ Return(x)
  /\ UNCHANGED <<tomb, mem, used, server, spent, reused, faulted, ended>>

\* _record_logout comes first; --all covers every name.
RecordLogout(x) ==
  /\ pc[x] = "locked" /\ loc[x].op \in {"logout", "logout_all"}
  /\ \/ /\ tomb' = IF loc[x].op = "logout" THEN tomb \cup {loc[x].q} ELSE Profile
        /\ pc' = [pc EXCEPT ![x] = "recorded"]
        /\ UNCHANGED <<holder, loc, alock>>
     \/ /\ "unsaved" \in Faults
        /\ Release(x)
        /\ Return(x)
        /\ UNCHANGED tomb
  /\ UNCHANGED <<file, mem, used, server, history>>

\* Then the profile, or the whole file, goes.
RemoveProfile(x) ==
  LET q == loc[x].q
      gone == IF loc[x].op = "logout" THEN {q} ELSE Profile IN
  /\ pc[x] = "recorded"
  /\ \/ /\ IF loc[x].op = "logout_all" THEN file' = EmptyFile
           ELSE IF file.tok[q] = None THEN file' = file
           ELSE file' \in DeleteProfile(file, q)
        /\ ended' = ended \cup {root[file.tok[r]] : r \in {r \in gone : file.tok[r] # None}}
        /\ touched' = touched \cup {y \in Cli \ {x} : AwaitsConsent(y) /\ loc[y].q \in gone}
     \/ "unsaved" \in Faults /\ UNCHANGED <<file, ended, touched>>
  /\ Release(x)
  /\ Return(x)
  /\ UNCHANGED <<tomb, mem, used, server, spent, reused, faulted>>

\* Mutant: the profile is not looked up again under the lock.
SetDefaultUnchecked(x) ==
  /\ pc[x] = "locked" /\ loc[x].op = "use"
  /\ \/ file' = [file EXCEPT !.default = loc[x].q]
     \/ "unsaved" \in Faults /\ file' = file
  /\ Release(x)
  /\ Return(x)
  /\ UNCHANGED <<tomb, mem, used, server, history>>

\* set_default_profile; a profile logged out meanwhile is a KeyError.
SetDefault(x) ==
  LET q == loc[x].q IN
  /\ pc[x] = "locked" /\ loc[x].op = "use"
  /\ \/ file.tok[q] # None /\ file' = [file EXCEPT !.default = q]
     \/ (file.tok[q] # None => "unsaved" \in Faults) /\ file' = file
  /\ Release(x)
  /\ Return(x)
  /\ UNCHANGED <<tomb, mem, used, server, history>>
-----------------------------------------------------------------------------
(* Crashes and recovery.                                                   *)

\* What the death of the actors in dead leaves behind: the marker, and the
\* requests already sent.
Die(dead) ==
  LET posting == {x \in dead : pc[x] = "post"} IN
  /\ "crash" \in Faults
  /\ pc' = [x \in Actor |-> IF x \in dead THEN "idle" ELSE pc[x]]
  /\ loc' = [x \in Actor |-> IF x \in dead THEN Rest ELSE loc[x]]
  /\ IF holder \in dead THEN Lock!Abandon(holder) ELSE UNCHANGED holder
  /\ faulted' = faulted \cup {loc[x].sel : x \in posting}
  /\ orphans' \in {orphans, orphans \cup {loc[x].sel : x \in {y \in posting : loc[y].ans = None}}}
  /\ UNCHANGED <<file, tomb, issued, live, void, stale, root, spent, reused, ended, touched>>

CrashProc(p) ==
  /\ mem[p] # None
  /\ Die({t \in Task : TaskProc[t] = p})
  /\ mem' = [mem EXCEPT ![p] = None]
  /\ used' = [used EXCEPT ![p] = None]
  /\ alock' = [alock EXCEPT ![p] = NoOne]

CrashCli(x) ==
  /\ pc[x] # "idle"
  /\ Die({x})
  /\ UNCHANGED <<mem, used, alock>>

\* Every client is stopped, then the abandoned marker is removed by hand.
Retire ==
  /\ \A p \in Proc : mem[p] = None
  /\ \A x \in Cli : pc[x] = "idle"
  /\ Lock!Retire
  /\ UNCHANGED <<file, tomb, mem, used, alock, pc, loc, server, history>>
-----------------------------------------------------------------------------
\* What an actor's code does by itself once it started.
Step(x) ==
  \/ Acquire(x) \/ GiveUp(x)
  \/ RefreshLoggedOut(x) \/ RefreshAdopt(x) \/ RefreshPost(x)
  \/ SaveRefreshed(x) \/ RefreshRefused(x) \/ RefreshNotSaved(x)
  \/ ServerExchanges(x) \/ ServerRefuses(x) \/ RefreshLost(x)

TaskStep(t) == Accepted(t) \/ Unauthorized(t)

CliStep(x) ==
  \/ ConsentRequired(x) \/ Consent(x) \/ UpdateProfile(x) \/ RecordLogout(x)
  \/ RemoveProfile(x) \/ SetDefault(x) \/ \E q \in Profile : Revoke(x, q)

CliStart(x) ==
  \/ LogoutAll(x)
  \/ \E q \in Profile : Login(x, q) \/ Logout(x, q) \/ RefreshCommand(x, q) \/ Use(x, q)

Next ==
  \/ \E x \in Actor : Step(x)
  \/ \E t \in Task : BeginRequest(t) \/ TakeLock(t) \/ TaskStep(t)
  \/ \E x \in Cli : CliStart(x) \/ CliStep(x) \/ CrashCli(x)
  \/ \E p \in Proc : StartProc(p) \/ ReloadState(p) \/ ExitProc(p) \/ CrashProc(p)
  \/ \E g \in Gen : Age(g) \/ Void(g)
  \/ ServerOrphan \/ Retire

Spec == Init /\ [][Next]_vars

\* Code that can run runs, waits end by their deadlines, the server answers or
\* the request times out, and asyncio.Lock serves its waiters in order.
Fairness ==
  /\ \A x \in Actor : WF_vars(Step(x))
  /\ \A t \in Task : SF_vars(TakeLock(t)) /\ WF_vars(TaskStep(t))
  /\ \A x \in Cli : WF_vars(CliStep(x))

FairSpec == Spec /\ Fairness
-----------------------------------------------------------------------------
TypeOK ==
  /\ file \in File
  /\ tomb \subseteq Profile
  /\ holder \in Actor \cup {Free, Abandoned}
  /\ mem \in [Proc -> Gen \cup {None}]
  /\ used \in [Proc -> Gen \cup {None}]
  /\ alock \in [Proc -> Task \cup {NoOne}]
  /\ pc \in [Actor -> PCs]
  /\ loc \in [Actor -> Locals]
  /\ issued \in Gen
  /\ live \subseteq Gen /\ void \subseteq Gen /\ orphans \subseteq Gen
  /\ stale \subseteq Gen
  /\ root \in [Gen -> Gen \cup {None}]
  /\ spent \subseteq Gen /\ reused \subseteq Gen /\ faulted \subseteq Gen
  /\ ended \subseteq Gen \cup {None}
  /\ touched \subseteq Cli

\* Whatever processes and commands refresh at once, none sends a refresh token
\* that was exchanged already, unless the exchange itself went wrong: its
\* answer was lost, could not be saved, or died with the process.
NoReuse == reused \subseteq faulted

\* The refresh token on file works, except while its exchange is under way
\* with the lock held, and after an exchange that went wrong.
FileRefreshable ==
  \A q \in Profile : file.tok[q] \in spent \ faulted =>
    \E x \in Actor : /\ holder = x /\ pc[x] = "post"
                     /\ loc[x].sel = file.tok[q] /\ loc[x].ans \in Gen

\* A login that was logged out never comes back to the file: not by a refresh
\* queued or under way meanwhile, and not by a process that still holds it.
LoggedOutStaysOut ==
  \A q \in Profile : file.tok[q] # None => root[file.tok[q]] \notin ended

\* A write replaces a profile by something newer of the same login, or by a
\* new login: no writer puts back what another one has replaced.
NoStaleWriteBack ==
  \A q \in Profile :
    LET old == file.tok[q]
        new == file'.tok[q] IN
    old # None /\ new # None /\ old # new =>
      IF root'[new] = root[old] THEN new > old ELSE root'[new] = new

\* Only `logout --all` changes more than one profile: a save never takes the
\* other profiles back to what they were when its file was loaded.
OtherProfilesKept ==
  \/ \E q \in Profile : \A r \in Profile \ {q} : file'.tok[r] = file.tok[r]
  \/ file' = EmptyFile

\* Every write of the file leaves the newest login of every profile: the
\* writer's own goes forward, and no other profile is taken back.
WritesKeepNewer == [][NoStaleWriteBack /\ OtherProfilesKept]_vars

\* With any profile on file, the default names one of them.
DefaultExists ==
  (\E q \in Profile : file.tok[q] # None) => file.tok[file.default] # None

\* A consent is saved only over the very profile it was asked for: since the
\* scope was refused nobody refreshed, replaced or logged out that profile.
ConsentNotStale ==
  [][\A x \in Cli : /\ pc[x] = "locked" /\ loc[x].op = "consent"
                    /\ file'.tok[loc[x].q] = loc[x].ans
                    => x \notin touched]_vars

\* A client that holds the only copy of a rotated credential, because the file
\* could not be written, never again sends the used-up token left on file.
UnsavedCopyWins ==
  \A t \in Task : pc[t] = "post" /\ used[TaskProc[t]] # None
                   => loc[t].sel # used[TaskProc[t]]

\* The retry after a 401 never carries the token that was rejected.
RetryWithAnotherToken ==
  \A t \in Task : pc[t] = "sent" /\ loc[t].again => loc[t].tok # loc[t].rej

\* A client never goes back to a token it knows is no good: not to the one on
\* file that it used up, and not to the one a 401 has rejected.
RightToken == UnsavedCopyWins /\ RetryWithAnotherToken

(* The strengthening that makes NoReuse inductive.                         *)

\* Whoever works on the file holds the lock, with the file as it loaded it.
LockHeld == \A x \in Actor : pc[x] \in {"locked", "post", "recorded"} => holder = x
LoadedIsCurrent == \A x \in Actor : pc[x] = "post" => loc[x].cf = file

\* A process refreshes in one task at a time.
OneRefresher ==
  \A t \in Task : pc[t] \in {"acquire", "locked", "post"} => alock[TaskProc[t]] = t

\* Operations are where they can be, and what a login or consent saves is a
\* token response.
OpsInPlace ==
  /\ \A t \in Task : /\ loc[t].op \in {"none", "skew", "force"}
                     /\ pc[t] \in {"await_lock", "acquire", "locked", "post"} => Refreshes(t)
  /\ \A x \in Cli : loc[x].ub = None
  /\ \A x \in Actor :
       /\ loc[x].op \in {"login", "consent"} => loc[x].ans \in Gen
       /\ pc[x] = "post" => Refreshes(x) /\ loc[x].sel \in Gen
       /\ pc[x] = "recorded" => \/ loc[x].op = "logout" /\ loc[x].q \in tomb
                                \/ loc[x].op = "logout_all" /\ tomb = Profile

\* A profile that somebody still refreshes is on file or recorded as logged
\* out: the caller's copy is used for neither.
KnownProfile ==
  /\ \A p \in Proc : mem[p] # None =>
       file.tok[ProcProfile[p]] # None \/ ProcProfile[p] \in tomb
  /\ \A t \in Task : pc[t] # "idle" => mem[TaskProc[t]] # None
  /\ \A x \in Cli : Refreshes(x) => file.tok[loc[x].q] # None \/ loc[x].q \in tomb

\* The token an actor sends, and a new one on its way to file or memory.
Sends(x, g) == loc[x].fb = g \/ (pc[x] = "post" /\ loc[x].sel = g)

\* No token is newer than the last response.
NotNewer ==
  /\ \A q \in Profile : file.tok[q] <= issued
  /\ \A p \in Proc : mem[p] <= issued
  /\ \A x \in Actor : /\ loc[x].fb <= issued /\ loc[x].ans <= issued
                      /\ pc[x] = "post" => loc[x].sel <= issued
  /\ \A g \in spent \cup orphans : g <= issued
  /\ orphans \subseteq faulted

\* Two profiles never hold the same token, and nobody refreshes with the token
\* of another profile.
FileDistinct ==
  /\ \A q, r \in Profile : file.tok[q] = file.tok[r] /\ file.tok[q] # None => q = r
  /\ \A x \in Actor, q \in Profile :
       pc[x] = "post" /\ loc[x].sel = file.tok[q] => q = ProfileOf(x)

\* A token response that is not saved yet is known to nobody else.
AnswerFresh ==
  \A x \in Actor : loc[x].ans \in Gen =>
    /\ \A q \in Profile : file.tok[q] # loc[x].ans
    /\ \A p \in Proc : mem[p] # loc[x].ans
    /\ \A y \in Actor : /\ ~Sends(y, loc[x].ans)
                        /\ y # x => loc[y].ans # loc[x].ans
    /\ loc[x].ans \notin spent \cup orphans

\* Token g is known to process p alone.
PrivateTo(p, g) ==
  /\ g \in Gen
  /\ \A q \in Profile : file.tok[q] # g
  /\ \A r \in Proc \ {p} : mem[r] # g
  /\ \A x \in Actor : /\ loc[x].ans # g
                      /\ Sends(x, g) => x \in Task /\ TaskProc[x] = p

\* Process p is saving the answer to token g.
Saving(p, g) == \E t \in Task : /\ TaskProc[t] = p /\ pc[t] = "post"
                               /\ loc[t].sel = g /\ loc[t].ans \in Gen

\* The only copy of a rotated credential stays with its process, in memory and
\* in the task that captured it, and works until that process sends it.
UnsavedMem ==
  \A p \in Proc : used[p] # None =>
    /\ PrivateTo(p, mem[p])
    /\ mem[p] \in spent \ faulted => Saving(p, mem[p])
UnsavedLoc ==
  \A t \in Task : pc[t] \in {"acquire", "locked"} /\ loc[t].ub # None =>
    PrivateTo(TaskProc[t], loc[t].fb) /\ loc[t].fb \notin spent \ faulted

IInv == /\ TypeOK /\ LockHeld /\ LoadedIsCurrent /\ OneRefresher /\ OpsInPlace
        /\ KnownProfile /\ NotNewer /\ FileDistinct /\ AnswerFresh
        /\ UnsavedMem /\ UnsavedLoc /\ FileRefreshable /\ NoReuse

\* Every request and every command ends, whatever becomes of the lock.
Settles == \A x \in Actor : pc[x] # "idle" ~> pc[x] = "idle"
=============================================================================
