------------------------------ MODULE Secrets ------------------------------
(***************************************************************************)
(* `kagura secret`: one secret shared between members.  The server keeps   *)
(* ciphertexts and the registry of public keys; values and private keys    *)
(* stay with the members.  To grant or to rotate, a command reads the      *)
(* secret and the registry (two requests at once), works out the           *)
(* recipients, and stores a new version for exactly these: a read and a    *)
(* write with nothing between them that would stop another member.         *)
(***************************************************************************)
EXTENDS FiniteSets, Naturals

CONSTANTS Members,        \* each has one keychain and one key profile
          Terminals,      \* processes of the members
          OwnerOf,        \* Terminals -> Members
          Enrolled,       \* terminals whose key was made and approved before
          MaxCommands     \* bound on commands begun

(* A key pair is named by the terminal that generated it.                  *)
NoKey == "no key"

ASSUME SecretsAssumption ==
  /\ NoKey \notin Terminals
  /\ OwnerOf \in [Terminals -> Members]
  /\ Enrolled \subseteq Terminals
  /\ \A s, t \in Enrolled : OwnerOf[s] = OwnerOf[t] => s = t
  /\ MaxCommands \in Nat

KeyStatus == {"unknown", "pending", "active", "revoked"}

VARIABLES
  keychain,    \* per member: the private key in the OS keychain
  registry,    \* per key: its status at the server
  secret,      \* current version (a stamp that never repeats), value, recipients
  grants,      \* keys whose owner may fetch it
  terminal,    \* per process: the command's control state and its locals
  commands,    \* commands begun
  named        \* history: the keys that some command named as recipient

secretVars == <<keychain, registry, secret, grants, terminal, commands, named>>

Fetched == [version : Nat, value : Nat, snapshot : SUBSET Terminals]
Nothing == [version |-> 0, value |-> 0, snapshot |-> {}]
Quiet == [pc |-> "idle", to |-> {}, sv |-> Nothing, list |-> {}, asked |-> FALSE]

SecretTypeOK ==
  /\ keychain \in [Members -> Terminals \cup {NoKey}]
  /\ registry \in [Terminals -> KeyStatus]
  /\ secret \in Fetched
  /\ grants \subseteq Terminals
  /\ terminal \in [Terminals ->
       [pc : {"idle", "enroll", "store", "register", "put", "grant", "rotate"}, to : SUBSET Terminals,
        sv : Fetched, list : SUBSET Terminals, asked : BOOLEAN]]
  /\ commands \in 0 .. MaxCommands
  /\ named \subseteq Terminals

SecretInit ==
  /\ keychain = [m \in Members |->
                   IF \E t \in Enrolled : OwnerOf[t] = m THEN CHOOSE t \in Enrolled : OwnerOf[t] = m ELSE NoKey]
  /\ registry = [k \in Terminals |-> IF k \in Enrolled THEN "active" ELSE "unknown"]
  /\ secret = Nothing
  /\ grants = {}
  /\ terminal = [t \in Terminals |-> Quiet]
  /\ commands = 0
  /\ named = {}

Stored == secret.value > 0
MyKey(t) == keychain[OwnerOf[t]]
Listed == {k \in Terminals : registry[k] # "unknown"}
Active == {k \in Terminals : registry[k] = "active"}
MayFetch(t) == Stored /\ MyKey(t) \in grants

Starting(t, pc, to) ==
  /\ terminal[t].pc = "idle" /\ commands < MaxCommands
  /\ commands' = commands + 1
  /\ terminal' = [terminal EXCEPT ![t] = [Quiet EXCEPT !.pc = pc, !.to = to]]

Simple(t) ==
  /\ terminal[t].pc = "idle" /\ commands < MaxCommands
  /\ commands' = commands + 1
  /\ UNCHANGED terminal

Finish(t) == terminal' = [terminal EXCEPT ![t] = Quiet]

---------------------------------------------------------------------------
(* Keys: keygen, approve, and revoking a key altogether.                   *)

(* A key that is there already is reused; otherwise it is made.            *)
has_key(t) == MyKey(t) # NoKey

keygen(t) ==
  /\ Starting(t, IF has_key(t) THEN "register" ELSE "enroll", {})
  /\ UNCHANGED <<keychain, registry, secret, grants, named>>

(* enroll looks once more and makes a key pair, which it then stores.      *)
enroll(t) ==
  /\ terminal[t].pc = "enroll"
  /\ IF has_key(t) THEN Finish(t) ELSE terminal' = [terminal EXCEPT ![t].pc = "store"]
  /\ UNCHANGED <<keychain, registry, secret, grants, commands, named>>

(* keygen --no-register ends here, and so does one that cannot register.   *)
store_identity(t) ==
  /\ terminal[t].pc = "store"
  /\ keychain' = [keychain EXCEPT ![OwnerOf[t]] = t]
  /\ \/ terminal' = [terminal EXCEPT ![t].pc = "register"]
     \/ Finish(t)
  /\ UNCHANGED <<registry, secret, grants, commands, named>>

register_pubkey(t) ==
  /\ terminal[t].pc = "register"
  /\ registry' = [registry EXCEPT ![MyKey(t)] = IF @ = "unknown" THEN "pending" ELSE @]
  /\ Finish(t)
  /\ UNCHANGED <<keychain, secret, grants, commands, named>>

approve_pubkey(t, k) ==
  /\ registry[k] = "pending"
  /\ Simple(t)
  /\ registry' = [registry EXCEPT ![k] = "active"]
  /\ UNCHANGED <<keychain, secret, grants, named>>

revoke_pubkey(t, k) ==
  /\ registry[k] \in {"pending", "active"}
  /\ Simple(t)
  /\ registry' = [registry EXCEPT ![k] = "revoked"]
  /\ UNCHANGED <<keychain, secret, grants, named>>

---------------------------------------------------------------------------
(* Storing: the three commands that write a version.                       *)

(* put --to keys, or for one's own key when none is named.                 *)
put(t, to) ==
  /\ Starting(t, "put", to)
  /\ UNCHANGED <<keychain, registry, secret, grants, named>>

grant(t, k) ==
  /\ Starting(t, "grant", {k})
  /\ UNCHANGED <<keychain, registry, secret, grants, named>>

rotate(t) ==
  /\ Starting(t, "rotate", {})
  /\ UNCHANGED <<keychain, registry, secret, grants, named>>

(* fetch_secret: only for a key with a grant.                              *)
fetch_secret(t) ==
  /\ terminal[t].pc \in {"grant", "rotate"} /\ terminal[t].sv.value = 0
  /\ IF MayFetch(t) THEN terminal' = [terminal EXCEPT ![t].sv = secret]
                    ELSE Finish(t)
  /\ UNCHANGED <<keychain, registry, secret, grants, commands, named>>

list_pubkeys(t) ==
  /\ terminal[t].pc \in {"put", "grant", "rotate"} /\ ~terminal[t].asked
  /\ terminal' = [terminal EXCEPT ![t].list = Active, ![t].asked = TRUE]
  /\ UNCHANGED <<keychain, registry, secret, grants, commands, named>>

(* _resolve_put_recipients: the keys of --to, or one's own.                *)
PutRecipients(t) == IF terminal[t].to # {} THEN terminal[t].to ELSE {MyKey(t)}

(* Mutant: the new version goes to whoever has an active key.              *)
RemainingAll(t) == terminal[t].list

(* Those of the fetched version whose key is still active.                 *)
Remaining(t) == terminal[t].sv.snapshot \cap terminal[t].list

(* Mutant: a grant encrypts for the new key only.                          *)
RecipientsNewOnly(t) ==
  IF terminal[t].pc = "rotate" THEN Remaining(t) ELSE PutRecipients(t)

Recipients(t) ==
  CASE terminal[t].pc = "put"    -> PutRecipients(t)
    [] terminal[t].pc = "grant"  -> Remaining(t) \cup terminal[t].to
    [] terminal[t].pc = "rotate" -> Remaining(t)

(* grant encrypts again what it decrypted, with its own key.               *)
Decrypts(t) == MyKey(t) \in terminal[t].sv.snapshot

Ready(t) == /\ terminal[t].asked
            /\ terminal[t].pc = "put" \/ (terminal[t].pc \in {"grant", "rotate"} /\ terminal[t].sv.value > 0)

(* put_secret_for_recipients refuses no recipient, and one that the        *)
(* registry did not list as active; the server refuses one that no longer  *)
(* is.  A new version has the recipients given, and no others.             *)
Acceptable(t) == /\ Recipients(t) # {} /\ Recipients(t) \subseteq terminal[t].list
                 /\ terminal[t].pc = "grant" => Decrypts(t)

put_secret_for_recipients(t) ==
  /\ Ready(t)
  /\ IF Acceptable(t) /\ Recipients(t) \subseteq Active
       THEN /\ secret' = [version |-> secret.version + 1,
                          value |-> IF terminal[t].pc = "grant" THEN terminal[t].sv.value ELSE secret.version + 1,
                          snapshot |-> Recipients(t)]
            /\ grants' = Recipients(t)
            /\ named' = named \cup (IF terminal[t].pc = "put" THEN Recipients(t) ELSE terminal[t].to)
       ELSE UNCHANGED <<secret, grants, named>>
  /\ Finish(t)
  /\ UNCHANGED <<keychain, registry, commands>>

(* revoke_grant: the key may fetch no more, and is no recipient to keep.   *)
revoke_grant(t, k) ==
  /\ Stored /\ k \in grants
  /\ Simple(t)
  /\ grants' = grants \ {k}
  /\ secret' = [secret EXCEPT !.snapshot = @ \ {k}]
  /\ UNCHANGED <<keychain, registry, named>>

(* All versions and grants; a put that is under way stores it anew.        *)
delete_secret(t) ==
  /\ Stored
  /\ Simple(t)
  /\ secret' = [Nothing EXCEPT !.version = secret.version]
  /\ grants' = {}
  /\ UNCHANGED <<keychain, registry, named>>

SecretNext ==
  \E t \in Terminals :
    \/ keygen(t) \/ enroll(t) \/ store_identity(t) \/ register_pubkey(t)
    \/ rotate(t) \/ delete_secret(t) \/ fetch_secret(t) \/ list_pubkeys(t) \/ put_secret_for_recipients(t)
    \/ \E k \in Listed :
         approve_pubkey(t, k) \/ revoke_pubkey(t, k) \/ grant(t, k) \/ revoke_grant(t, k)
    \/ \E to \in SUBSET Listed : put(t, to)

SecretSpec == SecretInit /\ [][SecretNext]_secretVars

---------------------------------------------------------------------------
(* Correctness.                                                            *)

(* Nobody can fetch the secret whose key no command named for it: a        *)
(* rotation never widens the circle, and one grant adds one key.  Every    *)
(* key that may fetch the secret is a recipient of its ciphertext.         *)
NoStranger == grants \subseteq named /\ grants \subseteq secret.snapshot

(* A version written on top of the one that the command had read keeps    *)
(* the recipients whose keys are active, adds at most the key granted, and *)
(* after a grant has the same value.  Only a command overtaken by another  *)
(* one's write takes a grant or a value back, or revives a revoked one.    *)
NothingLostInOrder ==
  [][\A t \in Terminals :
       LET old == terminal[t] IN
         (old.pc \in {"grant", "rotate"} /\ secret'.version # secret.version /\ terminal'[t] # old
            /\ old.sv = secret) =>
           /\ secret.snapshot \cap Active \cap old.list \subseteq secret'.snapshot
           /\ secret'.snapshot \subseteq secret.snapshot \cup old.to
           /\ old.pc = "grant" => secret'.value = secret.value]_secretVars
============================================================================
