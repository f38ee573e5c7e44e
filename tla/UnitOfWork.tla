----------------------------- MODULE UnitOfWork -----------------------------
(***************************************************************************)
(* The unit of work every command of the banking API runs in. Its writes   *)
(* change the one cache in place, field by field, and the content a row    *)
(* had is kept before its first write; entries, events and audit records   *)
(* wait in the store of the command. A command ends in one transaction,    *)
(* or the rows are put back. The row of a command in a table is abstracted *)
(* to who wrote each of its fields.                                        *)
(***************************************************************************)
EXTENDS Naturals, Sequences

CONSTANTS
  Commands, Records, Fields,
  Absent, Seeded,          \* no row; content no command has written
  Nobody, NotTaken,        \* no command; no snapshot of a row was taken
  Retention,               \* EVENT_RETENTION_PER_TENANT
  MaxStaged                \* bound of the exploration: entries, and events, of one command

VARIABLES
  cache,     \* what every get of a row reads
  disk,      \* the rows of the tables
  entries,   \* [Commands -> Nat]: entries on disk, by the command that posted them
  events,    \* the tenant's events on disk, oldest first, each its command
  audit,     \* the audit record of each command
  phase,     \* "new", "running" or "over"
  store      \* the request store of each running command

unitVars == <<cache, disk, entries, events, audit, phase, store>>

Content == [Fields -> Commands \cup {Seeded}] \cup {Absent}
Outcomes == {"succeeded", "failed"}
NoRecord == [outcome |-> "none"]
EmptyStore == [snapshots |-> [r \in Records |-> NotTaken], entries |-> 0, events |-> 0]

RequestStore ==
  [snapshots : [Records -> Content \cup {NotTaken}], entries : Nat, events : Nat]
AuditRecord ==
  [outcome : Outcomes, entries : Nat, events : Nat, resources : SUBSET Records]

ASSUME UnitAssumption ==
  /\ NotTaken \notin Content
  /\ Seeded \notin Commands /\ Nobody \notin Commands
  /\ Retention \in Nat

UnitTypeOK ==
  /\ cache \in [Records -> Content]
  /\ disk \in [Records -> Content]
  /\ entries \in [Commands -> Nat]
  /\ events \in Seq(Commands)
  /\ audit \in [Commands -> AuditRecord \cup {NoRecord}]
  /\ phase \in [Commands -> {"new", "running", "over"}]
  /\ store \in [Commands -> RequestStore]

(* A process that starts reads the tables; the seed wrote to them.         *)
UnitInit ==
  /\ disk \in [Records -> {Absent, [f \in Fields |-> Seeded]}]
  /\ cache = disk
  /\ entries = [c \in Commands |-> 0]
  /\ events = <<>>
  /\ audit = [c \in Commands |-> NoRecord]
  /\ phase = [c \in Commands |-> "new"]
  /\ store = [c \in Commands |-> EmptyStore]

-----------------------------------------------------------------------------
Running == {c \in Commands : phase[c] = "running"}

AnyTurn == TRUE      \* mutant: commands overlap at their awaits

(* A command waits for the promise of the one before it.                   *)
Turn == Running = {}

Begin(c) ==
  /\ phase[c] = "new" /\ Turn
  /\ phase' = [phase EXCEPT ![c] = "running"]
  /\ UNCHANGED <<cache, disk, entries, events, audit, store>>

SnapshotEachTime(c, r) == [store[c].snapshots EXCEPT ![r] = cache[r]]      \* mutant

(* A row is copied before its first write and never again: a later copy    *)
(* would already hold writes of this command.                              *)
SnapshotOnce(c, r) ==
  IF store[c].snapshots[r] = NotTaken
  THEN [store[c].snapshots EXCEPT ![r] = cache[r]]
  ELSE store[c].snapshots

Write(c, r, content) ==
  /\ store' = [store EXCEPT ![c].snapshots = SnapshotOnce(c, r)]
  /\ cache' = [cache EXCEPT ![r] = content]
  /\ UNCHANGED <<disk, entries, events, audit, phase>>

SetRow(c, r) == phase[c] = "running" /\ Write(c, r, [f \in Fields |-> c])

SetField(c, r, f) ==
  /\ phase[c] = "running"
  /\ cache[r] # Absent
  /\ Write(c, r, [cache[r] EXCEPT ![f] = c])

Delete(c, r) ==
  /\ phase[c] = "running"
  /\ cache[r] # Absent
  /\ Write(c, r, Absent)

PostEntry(c) ==
  /\ phase[c] = "running"
  /\ store[c].entries < MaxStaged
  /\ store' = [store EXCEPT ![c].entries = @ + 1]
  /\ UNCHANGED <<cache, disk, entries, events, audit, phase>>

Emit(c) ==
  /\ phase[c] = "running"
  /\ store[c].events < MaxStaged
  /\ store' = [store EXCEPT ![c].events = @ + 1]
  /\ UNCHANGED <<cache, disk, entries, events, audit, phase>>

-----------------------------------------------------------------------------
Taken(c) == {r \in Records : store[c].snapshots[r] # NotTaken}

AuditOf(c, outcome) ==
  [outcome |-> outcome, entries |-> store[c].entries, events |-> store[c].events,
   resources |-> Taken(c)]

EndScope(c) ==
  /\ phase' = [phase EXCEPT ![c] = "over"]
  /\ store' = [store EXCEPT ![c] = EmptyStore]

Emitted(c) == [i \in 1 .. store[c].events |-> c]
Trimmed(s) == IF Len(s) <= Retention THEN s ELSE SubSeq(s, Len(s) - Retention + 1, Len(s))

(* The rows that were touched, the entries, the events, the record of      *)
(* success and the trimming are one transaction.                           *)
CommitUnit(c) ==
  /\ phase[c] = "running"
  /\ disk' = [r \in Records |-> IF r \in Taken(c) THEN cache[r] ELSE disk[r]]
  /\ entries' = [entries EXCEPT ![c] = store[c].entries]
  /\ events' = Trimmed(events \o Emitted(c))
  /\ audit' = [audit EXCEPT ![c] = AuditOf(c, "succeeded")]
  /\ EndScope(c)
  /\ UNCHANGED cache

NothingRestored(c) == cache      \* mutant: a failed command leaves its writes

Restored(c) == [r \in Records |-> IF r \in Taken(c) THEN store[c].snapshots[r] ELSE cache[r]]

(* The handler, a subscriber before the commit or the transaction throws;  *)
(* the record of the failure has a transaction of its own that may fail.   *)
Fail(c) ==
  /\ phase[c] = "running"
  /\ cache' = Restored(c)
  /\ audit' \in {audit, [audit EXCEPT ![c] = AuditOf(c, "failed")]}
  /\ EndScope(c)
  /\ UNCHANGED <<disk, entries, events>>

(* The process dies: commands that were running are gone.                  *)
Died ==
  /\ Running # {}
  /\ cache' = disk
  /\ phase' = [c \in Commands |-> IF c \in Running THEN "over" ELSE phase[c]]
  /\ store' = [c \in Commands |-> EmptyStore]
  /\ UNCHANGED <<disk, entries, events, audit>>

UnitNext ==
  \/ Died
  \/ \E c \in Commands :
       \/ Begin(c) \/ PostEntry(c) \/ Emit(c) \/ CommitUnit(c) \/ Fail(c)
       \/ \E r \in Records :
            SetRow(c, r) \/ Delete(c, r) \/ \E f \in Fields : SetField(c, r, f)

UnitSpec == UnitInit /\ [][UnitNext]_unitVars

-----------------------------------------------------------------------------
(* An audit record tells what is there: what a command wrote, posted or    *)
(* emitted is only ever found under a record of its success that names it, *)
(* however commands before it failed, wrote the same rows or died          *)
(* (inRequestScope, lib.js).                                               *)
AuditTellsTruth ==
  \A c \in Commands :
    /\ audit[c].outcome = "succeeded" => entries[c] = audit[c].entries
    /\ entries[c] > 0 \/ (\E i \in DOMAIN events : events[i] = c) =>
         audit[c].outcome = "succeeded"
    /\ \A r \in Records :
         disk[r] # Absent /\ (\E f \in Fields : disk[r][f] = c) =>
           audit[c].outcome = "succeeded" /\ r \in audit[c].resources

(* What the running command reads: the cache, and the entries and events   *)
(* on disk followed by its own.                                            *)
OwnWork ==
  IF Running = {} THEN [who |-> Nobody]
  ELSE LET c == CHOOSE c \in Commands : c \in Running IN
       [who |-> c, rows |-> cache, entries |-> [entries EXCEPT ![c] = store[c].entries],
        events |-> events \o Emitted(c)]

Isolated == INSTANCE CommandStore WITH rows <- disk, work <- OwnWork

(* A command sees the committed state and its own writes, nothing of a     *)
(* command that failed, and takes effect at once or not at all: what lets  *)
(* the other modules take a request as one step (inRequestScope, lib.js).  *)
ImplementsCommandStore == Isolated!StoreSpec
=============================================================================
