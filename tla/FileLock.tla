------------------------------ MODULE FileLock ------------------------------
(***************************************************************************)
(* The portable credential lock of _filelock.py.  A client holds the lock  *)
(* on credentials.json while the marker credentials.json.lock-v1 exists    *)
(* and carries the owner string the client wrote into it.  The marker is   *)
(* made with O_CREAT|O_EXCL, so creation is the one atomic step; writing   *)
(* the owner, the second look for a legacy marker, reading the marker back *)
(* and removing it are file operations of their own, and other clients,    *)
(* crashes, failing writes and people removing markers come between them.  *)
(* A client reads a marker only to compare it with its own owner string,   *)
(* after it has written that, so a marker is modelled by whose file it is. *)
(***************************************************************************)
EXTENDS Integers, FiniteSets

CONSTANTS Client,       \* processes of either SDK that share the file
          MaxTicket,    \* bound on the owners created in one behaviour
          MaxMisjudged, \* bound on the markers a person removes from under a
                        \* living client, against README.md:75-77
          Free,         \* Mutex: nobody holds the lock
          Abandoned     \* Mutex: its holder left the marker behind

ASSUME FileLockAssumption == /\ MaxTicket \in Nat
                             /\ MaxMisjudged \in Nat
                             /\ IsFiniteSet(Client)
                             /\ Free \notin Client
                             /\ Abandoned \notin Client
                             /\ Free # Abandoned

VARIABLES
  marker,   \* Absent, or the ticket of the client that made the file
  legacy,   \* whether credentials.json.lock, the old SDK's marker, exists
  next,     \* the ticket the next owner string gets (uuid4)
  pc,       \* where each client is in file_lock / async_file_lock
  ticket,   \* the owner string each client made last (None before the first)
  late,     \* clients whose 90 s deadline has passed
  leaked,   \* history: the marker was left by a client that is gone
  misjudged,\* history: markers a person removed from under a living client
  window    \* history: one of them while that client was not in its
            \* with-block, but taking the lock or past the owner check

people == <<misjudged, window>>

vars == <<marker, legacy, next, pc, ticket, late, leaked, misjudged, window>>

Absent == -1
None   == 0

\* Clients between creating the marker and having released it.
InsidePC == {"write", "check", "critical", "read", "unlink", "cleanup"}
PC == {"stopped", "idle", "retry", "create"} \cup InsidePC

Inside(p)  == pc[p] \in InsidePC
Waiting(p) == pc[p] \in {"retry", "create"}

\* The marker that is there is the one p made, or somebody removed that one.
Owns(p)   == Inside(p) /\ marker = ticket[p]
Robbed(p) == Inside(p) /\ marker # ticket[p]

Init == /\ marker = Absent
        /\ legacy = FALSE
        /\ next = 1
        /\ pc = [p \in Client |-> "stopped"]
        /\ ticket = [p \in Client |-> None]
        /\ late = {}
        /\ leaked = FALSE
        /\ misjudged = 0
        /\ window = FALSE

GoTo(p, l) == pc' = [pc EXCEPT ![p] = l]

Start(p) == /\ pc[p] = "stopped"
            /\ GoTo(p, "idle")
            /\ UNCHANGED <<marker, legacy, next, ticket, late, leaked, people>>

\* A caller enters the with-block: the deadline is set once, before the loop.
\* (MaxTicket bounds the requests: every waiter may still make one owner.)
Request(p) == /\ pc[p] = "idle"
              /\ next + Cardinality({q \in Client : Waiting(q)}) <= MaxTicket
              /\ GoTo(p, "retry")
              /\ late' = late \ {p}
              /\ UNCHANGED <<marker, legacy, next, ticket, leaked, people>>

\* First look for the legacy marker: refuse, or go on to create the new one.
RefuseLegacy(p) == /\ pc[p] = "retry"
                   /\ GoTo(p, IF legacy THEN "idle" ELSE "create")
                   /\ UNCHANGED <<marker, legacy, next, ticket, late, leaked, people>>

\* Mutant: a waiter never gives up.
CreateNoTimeout(p) ==
  /\ pc[p] = "create"
  /\ \/ /\ marker = Absent
        /\ marker' = next
        /\ ticket' = [ticket EXCEPT ![p] = next]
        /\ next' = next + 1
        /\ GoTo(p, "write")
     \/ /\ marker # Absent
        /\ GoTo(p, "retry")
        /\ UNCHANGED <<marker, next, ticket>>
  /\ UNCHANGED <<legacy, late, leaked, people>>

\* Mutant: past the deadline the marker counts as stale and is taken over.
CreateTakesOver(p) ==
  /\ pc[p] = "create"
  /\ \/ /\ marker = Absent \/ p \in late
        /\ marker' = next
        /\ ticket' = [ticket EXCEPT ![p] = next]
        /\ next' = next + 1
        /\ GoTo(p, "write")
     \/ /\ marker # Absent /\ p \notin late
        /\ GoTo(p, "retry")
        /\ UNCHANGED <<marker, next, ticket>>
  /\ UNCHANGED <<legacy, late, leaked, people>>

\* The exclusive create: it makes the marker, or finds one and then times out
\* past the deadline or goes back to sleep.
Create(p) ==
  /\ pc[p] = "create"
  /\ \/ /\ marker = Absent
        /\ marker' = next
        /\ ticket' = [ticket EXCEPT ![p] = next]
        /\ next' = next + 1
        /\ GoTo(p, "write")
     \/ /\ marker # Absent
        /\ GoTo(p, IF p \in late THEN "idle" ELSE "retry")
        /\ UNCHANGED <<marker, next, ticket>>
  /\ UNCHANGED <<legacy, late, leaked, people>>

\* The owner string is written through the descriptor of the file made, or
\* the write fails and the marker must go.
WriteOwner(p) ==
  /\ pc[p] = "write"
  /\ GoTo(p, "check") \/ GoTo(p, "cleanup")
  /\ UNCHANGED <<marker, legacy, next, ticket, late, leaked, people>>

\* Mutant: the refusal does not remove the marker it made.
CheckLegacyKeepsMarker(p) ==
  /\ pc[p] = "check"
  /\ GoTo(p, IF legacy THEN "idle" ELSE "critical")
  /\ UNCHANGED <<marker, legacy, next, ticket, late, leaked, people>>

\* Second look for the legacy marker, now that this marker exists.
CheckLegacy(p) == /\ pc[p] = "check"
                  /\ GoTo(p, IF legacy THEN "cleanup" ELSE "critical")
                  /\ UNCHANGED <<marker, legacy, next, ticket, late, leaked, people>>

\* lock.unlink(): whatever marker is there goes, whoever made it; if there is
\* none the FileNotFoundError ends the acquisition or the release as well.
RemoveMarker == marker' = Absent /\ leaked' = FALSE

\* The failed acquisition removes the marker, without another look at it.
Cleanup(p) == /\ pc[p] = "cleanup"
              /\ RemoveMarker
              /\ GoTo(p, "idle")
              /\ UNCHANGED <<legacy, next, ticket, late, people>>

\* The with-block ends, normally, by an exception or by a cancellation.
Leave(p) == /\ pc[p] = "critical"
            /\ GoTo(p, "read")
            /\ UNCHANGED <<marker, legacy, next, ticket, late, leaked, people>>

\* Mutant: _release removes the marker whoever it belongs to.
ReadOwnerUnchecked(p) ==
  /\ pc[p] = "read"
  /\ GoTo(p, IF marker # Absent THEN "unlink" ELSE "idle")
  /\ UNCHANGED <<marker, legacy, next, ticket, late, leaked, people>>

\* _release reads the marker: only its own owner string lets it go on.
ReadOwner(p) == /\ pc[p] = "read"
                /\ GoTo(p, IF marker = ticket[p] THEN "unlink" ELSE "idle")
                /\ UNCHANGED <<marker, legacy, next, ticket, late, leaked, people>>

\* The removal is a second operation: the marker may be another one by now.
Unlink(p) == /\ pc[p] = "unlink"
             /\ RemoveMarker
             /\ GoTo(p, "idle")
             /\ UNCHANGED <<legacy, next, ticket, late, people>>

\* An OSError other than FileNotFoundError while reading or removing the
\* marker: the error goes to the caller and the marker stays.
UnlinkFails(p) == /\ pc[p] \in {"read", "unlink", "cleanup"}
                  /\ GoTo(p, "idle")
                  /\ leaked' = (leaked \/ Owns(p))
                  /\ UNCHANGED <<marker, legacy, next, ticket, late, people>>

\* The waiter is cancelled while it sleeps between two attempts.
Cancel(p) == /\ pc[p] = "retry"
             /\ GoTo(p, "idle")
             /\ UNCHANGED <<marker, legacy, next, ticket, late, leaked, people>>

\* Ninety seconds have passed since the request.
DeadlinePasses(p) == /\ Waiting(p)
                     /\ p \notin late
                     /\ late' = late \cup {p}
                     /\ UNCHANGED <<marker, legacy, next, pc, ticket, leaked, people>>

\* The process exits or is killed; the client inside leaves its marker.
Crash(p) == /\ pc[p] # "stopped"
            /\ GoTo(p, "stopped")
            /\ leaked' = (leaked \/ Owns(p))
            /\ UNCHANGED <<marker, legacy, next, ticket, late, people>>

\* The recovery the error text and the README ask for: every participating
\* client is stopped first, then the markers are removed.
Retire == /\ \A p \in Client : pc[p] = "stopped"
          /\ RemoveMarker
          /\ legacy' = FALSE
          /\ UNCHANGED <<next, pc, ticket, late, people>>

\* What they warn of: somebody judges by age that a marker is abandoned and
\* removes it while clients run.  It may be an abandoned one; but it may also
\* belong to a client that lives, at any point of its code.
RemovedFrom(p) ==
  /\ Owns(p)
  /\ misjudged < MaxMisjudged
  /\ misjudged' = misjudged + 1
  /\ window' = (window \/ pc[p] \notin {"critical", "read"})

Misjudge == /\ marker # Absent
            /\ \E p \in Client : pc[p] # "stopped"
            /\ \/ \E p \in Client : RemovedFrom(p)
               \/ (\A p \in Client : ~Owns(p)) /\ UNCHANGED people
            /\ RemoveMarker
            /\ UNCHANGED <<legacy, next, pc, ticket, late>>

\* A client of an old SDK appears and makes the legacy marker.
LegacyAppears == /\ ~legacy
                 /\ legacy' = TRUE
                 /\ UNCHANGED <<marker, next, pc, ticket, late, leaked, people>>

\* The steps a client's code takes once it has asked for the lock.
Step(p) == \/ RefuseLegacy(p) \/ Create(p) \/ WriteOwner(p) \/ CheckLegacy(p)
           \/ Cleanup(p) \/ Leave(p) \/ ReadOwner(p) \/ Unlink(p)

Next == \/ \E p \in Client : \/ Start(p) \/ Request(p) \/ Step(p)
                             \/ UnlinkFails(p) \/ Cancel(p)
                             \/ DeadlinePasses(p) \/ Crash(p)
        \/ Retire \/ Misjudge \/ LegacyAppears

Spec == Init /\ [][Next]_vars

\* A running client keeps executing and time passes; a crash ends the
\* obligation by disabling its steps.
Fairness == \A p \in Client : WF_vars(Step(p)) /\ WF_vars(DeadlinePasses(p))

FairSpec == Spec /\ Fairness
-----------------------------------------------------------------------------
TypeOK == /\ marker \in {Absent} \cup Nat
          /\ legacy \in BOOLEAN
          /\ next \in Nat \ {0}
          /\ pc \in [Client -> PC]
          /\ ticket \in [Client -> Nat]
          /\ late \subseteq Client
          /\ leaked \in BOOLEAN
          /\ misjudged \in Nat
          /\ window \in BOOLEAN

\* Past the exclusive create there is at most one client, and one more for
\* each marker a person removed from under a living client: nothing the code
\* does by itself lets a second one in (the read-modify-writes of
\* credentials.py do not overlap), and a client that lost its marker, and may
\* remove the next one's, makes room for one client at most.
MutualExclusion == Cardinality({p \in Client : Inside(p)}) <= 1 + misjudged

\* A marker on disk belongs to a client still inside, or was left by one that
\* crashed or could not remove it: no refusal, timeout, failed write or
\* cancellation leaves a marker behind that would lock everybody out.
NoStrayMarker == marker # Absent => leaked \/ \E p \in Client : Owns(p)

\* Tickets are older than the next one, and no two clients that made an owner
\* share it.
TicketsUnique ==
  /\ \A p \in Client : ticket[p] < next
  /\ marker < next /\ marker # None
  /\ \A p, q \in Client : p # q /\ ticket[p] = ticket[q] => ticket[p] = None
  /\ \A p \in Client : Inside(p) => ticket[p] # None

\* A marker left behind has nobody inside who relies on it.
LeakedIsNobodys == leaked => marker # Absent /\ \A p \in Client : ~Owns(p)

\* Each client without its marker is paid for by a removal: when it takes the
\* marker of the next one, it is itself on its way out.
RobbedAreFew == Cardinality({p \in Client : Robbed(p)}) <= misjudged

\* Outside the window a client that lost its marker is in its with-block, or
\* about to find out that the marker is not its own.
RobbedCanTell ==
  ~window => \A p \in Client : Robbed(p) => pc[p] \in {"critical", "read"}

\* The strengthening that makes MutualExclusion inductive.
IInv == /\ TypeOK /\ NoStrayMarker /\ TicketsUnique /\ LeakedIsNobodys
        /\ RobbedAreFew /\ RobbedCanTell

\* A client inside loses its marker only to a person: no release, failed
\* acquisition, crash or retry of another client removes it, not even one
\* whose own marker a person removed before, since _release compares the
\* owner.  The exception is the window that comparison leaves open: a marker
\* removed between it and the unlink, or before the unlink of an acquisition
\* that fails.
MarkerKept ==
  [][\A q \in Client : Owns(q) /\ Robbed(q)' => window \/ misjudged' > misjudged]_vars

\* Every client that asks for the lock stops waiting: it gets in, is refused
\* or times out, even if the marker was abandoned and nobody retires it.
WaitersEnd == \A p \in Client : Waiting(p) ~> ~Waiting(p)
-----------------------------------------------------------------------------
(* The lock seen by its users: the holder is the client inside, from the   *)
(* creation of its marker to its removal.                                  *)
holder == IF \E p \in Client : Inside(p) THEN CHOOSE p \in Client : Inside(p)
          ELSE IF marker # Absent THEN Abandoned
          ELSE Free

Lock == INSTANCE Mutex WITH holder <- holder

\* As long as nobody removes the marker of a living client, the marker
\* protocol implements the lock of Mutex: it passes from nobody to a client
\* and back, and an abandoned marker goes only by the hand of a person.
ImplementsMutex == Lock!Init /\ [][misjudged' = 0 => [Lock!Next]_holder]_vars
=============================================================================
