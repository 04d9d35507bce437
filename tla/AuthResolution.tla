--------------------------- MODULE AuthResolution ---------------------------
(***************************************************************************)
(* Which credential a command or a client uses, which server it is sent    *)
(* to and which workspace it works in, when several sources are set up at  *)
(* once: the environment, profiles of the credentials file, .kagura.json.  *)
(*                                                                         *)
(* A credential is named by where it comes from: "env", "dotfile" or the   *)
(* profile.  So are the servers, with "default" for the SDK's own, and the *)
(* workspaces.  Other processes edit the credentials file meanwhile.       *)
(***************************************************************************)
EXTENDS Naturals, FiniteSets, Sequences

CONSTANTS Profiles, MaxEdits

None == "none"
Default == "default"
Blank == "blank"    \* KAGURA_PROFILE is set, but empty

(* A profile is none of the other sources.                                 *)
ASSUME AuthAssumption ==
  Profiles \cap {None, Default, Blank, "env", "dotfile", "given"} = {} /\ MaxEdits \in Nat

(* What a lane does: KaguraClient commands, REST commands, commands on     *)
(* files or members, an upload that also remembers the file, a program's   *)
(* KaguraClient(profile=...), and an entry of kagura-mcp for one profile.  *)
Lanes == {"client", "rest", "files", "upload", "library", "mcp"}

VARIABLES
  env,      \* KAGURA_API_KEY, KAGURA_MCP_URL, KAGURA_PROFILE, KAGURA_REQUIRE_PROFILE
  dotfile,  \* .kagura.json: is there, has a key, a url, a context
  creds,    \* the credentials file: its profiles and the default one
  bound,    \* the profiles that are bound to a workspace
  task,     \* the lane, the profile asked for, is a workspace given
  pc,
  state,    \* the profile found while its ambiguity is checked
  used,     \* the credentials resolved so far, each with its server
  place,    \* the workspace the task works in
  warned,   \* profiles the user was told are used by default
  edits
authVars == <<env, dotfile, creds, bound, task, pc, state, used, place, warned, edits>>
fixed == <<env, dotfile, bound, task>>

AuthInit ==
  /\ env \in [key : BOOLEAN, url : {None, "env"}, profile : Profiles \cup {None, Blank}, strict : BOOLEAN]
  /\ dotfile \in {d \in [there : BOOLEAN, key : BOOLEAN, url : {None, "dotfile"}, context : BOOLEAN] :
                    ~ d.there => d.key = FALSE /\ d.url = None /\ d.context = FALSE}
  /\ \E s \in SUBSET Profiles : \E d \in (IF s = {} THEN {None} ELSE s) : creds = [profiles |-> s, default |-> d]
  /\ bound \in SUBSET Profiles
  /\ task \in {t \in [lane : Lanes, profile : Profiles \cup {None}, target : BOOLEAN] :
                 /\ t.lane \notin {"library", "mcp"} => t.profile = None
                 /\ t.lane = "mcp" => t.profile # None
                 /\ t.target => t.lane \in {"files", "upload"}}
  /\ pc = "find" /\ state = None /\ used = <<>> /\ place = None /\ warned = {} /\ edits = 0

Or(u, v) == IF u = None THEN v ELSE u

(* The configuration: the file, or else what the environment says.         *)
Config == IF dotfile.there
          THEN [key |-> IF dotfile.key THEN "dotfile" ELSE None, url |-> dotfile.url, context |-> dotfile.context]
          ELSE [key |-> IF env.key THEN "env" ELSE None, url |-> Or(env.url, Default), context |-> FALSE]

(* Mutant: every lane passes the configuration's server.                   *)
ExplicitUrl == [key |-> IF task.lane = "client" THEN Config.key ELSE None, url |-> Config.url]

(* Mutant: the second client of an upload is made from the configuration.  *)
ExplicitAgain == IF task.lane = "client" \/ used # <<>> THEN [key |-> Config.key, url |-> Config.url]
                 ELSE [key |-> None, url |-> None]

(* The arguments of the resolution: KaguraClient commands pass what the    *)
(* configuration holds as if the user had typed it.                        *)
Explicit == IF task.lane = "client" THEN [key |-> Config.key, url |-> Config.url]
            ELSE [key |-> None, url |-> None]

Uses(cred, url) == used' = Append(used, [cred |-> cred, url |-> url])
Oauth(p) == Uses(p, Or(Explicit.url, p))

Fails == pc' = "failed" /\ UNCHANGED <<used, state>>
Resolved == pc' = IF task.lane \in {"files", "upload"} /\ used = <<>> THEN "place" ELSE "done"

(* What the resolution asks the credentials file for; an empty name gets   *)
(* the default profile, like none.                                         *)
Named == Or(task.profile, env.profile)
Requested == Named \notin {None, Blank}
Fallback(p) == IF p \in {None, Blank} THEN creds.default ELSE p

---------------------------------------------------------------------------
FromArgument ==
  /\ pc = "find" /\ task.lane # "mcp" /\ Explicit.key # None
  /\ Uses(Explicit.key, Or(Explicit.url, Default)) /\ Resolved
  /\ UNCHANGED <<fixed, creds, state, place, warned, edits>>

FromEnvironment ==
  /\ pc = "find" /\ task.lane # "mcp" /\ Explicit.key = None /\ env.key
  /\ Uses("env", Or(Explicit.url, Or(env.url, Default))) /\ Resolved
  /\ UNCHANGED <<fixed, creds, state, place, warned, edits>>

(* A profile: the one asked for, or the default, if the file has it.  An   *)
(* empty KAGURA_PROFILE gets the default as if it had been asked for.      *)
FromProfile ==
  /\ pc = "find" /\ task.lane # "mcp" /\ Explicit.key = None /\ ~ env.key
  /\ Fallback(Named) \in creds.profiles
  /\ IF Named = None THEN pc' = "ambiguous" /\ state' = creds.default /\ UNCHANGED used
     ELSE Oauth(Fallback(Named)) /\ Resolved /\ UNCHANGED state
  /\ UNCHANGED <<fixed, creds, place, warned, edits>>

(* Several profiles and none named: told once, or refused.  The file is    *)
(* read again for that.                                                    *)
CheckAmbiguity ==
  /\ pc = "ambiguous"
  /\ LET Several == Cardinality(creds.profiles) >= 2 IN
     IF Several /\ env.strict THEN Fails /\ UNCHANGED warned
     ELSE /\ Oauth(state) /\ Resolved /\ state' = None
          /\ warned' = (IF Several THEN warned \cup {state} ELSE warned)
  /\ UNCHANGED <<fixed, creds, place, edits>>

(* Mutant: a profile that does not exist gives way to the next source.     *)
FromConfigAnyway ==
  /\ pc = "find" /\ task.lane # "mcp" /\ Explicit.key = None /\ ~ env.key
  /\ Fallback(Named) \notin creds.profiles
  /\ IF Config.key # None THEN Uses(Config.key, Or(Explicit.url, Or(Config.url, Default))) /\ Resolved /\ UNCHANGED state
     ELSE Fails
  /\ UNCHANGED <<fixed, creds, place, warned, edits>>

(* A profile that was asked for and does not exist is an error; without    *)
(* one, .kagura.json is the last source.                                   *)
FromConfig ==
  /\ pc = "find" /\ task.lane # "mcp" /\ Explicit.key = None /\ ~ env.key
  /\ Fallback(Named) \notin creds.profiles
  /\ IF ~ Requested /\ Config.key # None
     THEN Uses(Config.key, Or(Explicit.url, Or(Config.url, Default))) /\ Resolved /\ UNCHANGED state
     ELSE Fails
  /\ UNCHANGED <<fixed, creds, place, warned, edits>>

(* The entry of one profile knows no other source.                         *)
ForMcpEntry ==
  /\ pc = "find" /\ task.lane = "mcp"
  /\ IF task.profile \in creds.profiles THEN Uses(task.profile, task.profile) /\ Resolved /\ UNCHANGED state
     ELSE Fails
  /\ UNCHANGED <<fixed, creds, place, warned, edits>>

---------------------------------------------------------------------------
(* Mutant: without a workspace of its own, a credential takes that of the  *)
(* default profile.                                                        *)
WorkspaceOfAny(cred) ==
  IF task.target THEN "given"
  ELSE IF cred \in bound THEN cred
  ELSE IF cred = "dotfile" /\ Config.context THEN cred
  ELSE IF creds.default \in bound THEN creds.default ELSE None

(* The workspace: the one given, or the one its credential is bound to.    *)
WorkspaceOf(cred) ==
  IF task.target THEN "given"
  ELSE IF cred \in bound \/ (cred = "dotfile" /\ Config.context) THEN cred ELSE None

Place ==
  /\ pc = "place"
  /\ place' = WorkspaceOf(used[1].cred)
  /\ pc' = CASE place' = None -> "failed" [] task.lane = "upload" -> "work" [] OTHER -> "done"
  /\ UNCHANGED <<fixed, creds, state, used, warned, edits>>

(* The file is uploaded; the memory is written by a client of its own,     *)
(* made without arguments.                                                 *)
Upload ==
  /\ pc = "work" /\ pc' = "find"
  /\ UNCHANGED <<fixed, creds, state, used, place, warned, edits>>

(* Another process: kagura auth use, login or logout.                      *)
Edit ==
  /\ edits < MaxEdits /\ pc \notin {"done", "failed"} /\ edits' = edits + 1
  /\ \E p \in Profiles :
       \/ p \in creds.profiles /\ p # creds.default /\ creds' = [creds EXCEPT !.default = p]
       \/ p \notin creds.profiles
            /\ creds' = [profiles |-> creds.profiles \cup {p}, default |-> Or(creds.default, p)]
       \/ p \in creds.profiles /\ LET rest == creds.profiles \ {p} IN
            \E d \in (IF p # creds.default THEN {creds.default} ELSE IF rest = {} THEN {None} ELSE rest) :
              creds' = [profiles |-> rest, default |-> d]
  /\ UNCHANGED <<fixed, pc, state, used, place, warned>>

AuthEnded == pc \in {"done", "failed"} /\ UNCHANGED authVars

AuthNext == FromArgument \/ FromEnvironment \/ FromProfile \/ CheckAmbiguity \/ FromConfig \/ ForMcpEntry
        \/ Place \/ Upload \/ Edit \/ AuthEnded
AuthSpec == AuthInit /\ [][AuthNext]_authVars

---------------------------------------------------------------------------
Home(cred) == CASE cred = "env" -> Or(env.url, Default)
                [] cred = "dotfile" -> Or(dotfile.url, Default)
                [] OTHER -> cred

(* A credential is only sent to the server of its own source: the REST     *)
(* commands, the program's clients and the entries of kagura-mcp never     *)
(* pair the key of one source with the URL of another.                     *)
SentHome == task.lane # "client" => \A i \in DOMAIN used : used[i].url = Home(used[i].cred)

(* A workspace nobody named belongs to the very credential that is used.   *)
WorkspaceOfCredential == place \notin {None, "given"} => place = used[1].cred

(* A profile that was asked for is never silently replaced: not by the     *)
(* default one, not by .kagura.json.  Only KAGURA_API_KEY comes first.     *)
ProfileNeverReplaced ==
  task.lane # "client" /\ Requested =>
    \A i \in DOMAIN used : used[i].cred \in (IF task.lane = "mcp" THEN {task.profile} ELSE {Named, "env"})

(* The memory of an uploaded file is written with the credential that      *)
(* uploaded it, unless the credentials file was edited in between.         *)
SameUploader == Len(used) = 2 /\ edits = 0 => used[1] = used[2]

(* One command is one identity: its workspace and all its clients.         *)
OneIdentity == WorkspaceOfCredential /\ SameUploader

(* Two profiles and none asked for: the one used was announced, and with   *)
(* KAGURA_REQUIRE_PROFILE none is used.  The exception is an empty         *)
(* KAGURA_PROFILE, which passes for a selection (target_profile is not     *)
(* None) and silences both.                                                *)
NoSilentGuess ==
  edits = 0 /\ Named = None /\ Cardinality(creds.profiles) >= 2 =>
    \A i \in DOMAIN used : used[i].cred \in Profiles => used[i].cred \in warned /\ ~ env.strict

(* Whom a command works as is what its user said, or is told, but for an   *)
(* empty KAGURA_PROFILE.                                                   *)
NoSilentProfile == ProfileNeverReplaced /\ NoSilentGuess

(* What _run_client_command documents: the environment comes before the    *)
(* profiles, and the profiles before .kagura.json.                         *)
ClientFollowsChain ==
  task.lane = "client" /\ used # <<>> /\ edits = 0 =>
    used[1].cred = IF env.key THEN "env"
                   ELSE IF Fallback(Named) \in creds.profiles THEN Fallback(Named) ELSE "dotfile"
=============================================================================
