---------------------------- MODULE CommandStore ----------------------------
(***************************************************************************)
(* What a unit of work promises to the handler that runs in it: a copy of  *)
(* everything committed, for itself alone, that becomes the committed      *)
(* state in one step or is thrown away. UnitOfWork implements it without   *)
(* ever making a copy.                                                     *)
(***************************************************************************)
EXTENDS Naturals, Sequences

CONSTANTS
  Commands, Records, Fields,
  Absent, Seeded,          \* no row; content no command has written
  Nobody,                  \* no command is running
  Retention                \* EVENT_RETENTION_PER_TENANT

VARIABLES
  rows,      \* committed rows: each field holds the command that wrote it
  entries,   \* [Commands -> Nat]: committed entries of each command
  events,    \* committed events, oldest first, each its command
  work       \* [who, rows, entries, events]: the copy of the running one

storeVars == <<rows, entries, events, work>>

Content == [Fields -> Commands \cup {Seeded}] \cup {Absent}

(* The events kept for a tenant are its last ones.                         *)
Trimmed(s) == IF Len(s) <= Retention THEN s ELSE SubSeq(s, Len(s) - Retention + 1, Len(s))

NoWork == [who |-> Nobody]

StoreInit ==
  /\ rows \in [Records -> {Absent, [f \in Fields |-> Seeded]}]
  /\ entries = [c \in Commands |-> 0]
  /\ events = <<>>
  /\ work = NoWork

BeginWork(c) ==
  /\ work = NoWork
  /\ work' = [who |-> c, rows |-> rows, entries |-> entries, events |-> events]
  /\ UNCHANGED <<rows, entries, events>>

WriteRow(c, r, content) ==
  /\ work.who = c
  /\ work' = [work EXCEPT !.rows[r] = content]
  /\ UNCHANGED <<rows, entries, events>>

AddEntry(c) ==
  /\ work.who = c
  /\ work' = [work EXCEPT !.entries[c] = @ + 1]
  /\ UNCHANGED <<rows, entries, events>>

AddEvent(c) ==
  /\ work.who = c
  /\ work' = [work EXCEPT !.events = Append(@, c)]
  /\ UNCHANGED <<rows, entries, events>>

CommitWork(c) ==
  /\ work.who = c
  /\ rows' = work.rows /\ entries' = work.entries /\ events' = Trimmed(work.events)
  /\ work' = NoWork

DropWork(c) ==
  /\ work.who = c
  /\ work' = NoWork
  /\ UNCHANGED <<rows, entries, events>>

StoreNext ==
  \E c \in Commands :
    \/ BeginWork(c) \/ AddEntry(c) \/ AddEvent(c) \/ CommitWork(c) \/ DropWork(c)
    \/ \E r \in Records, content \in Content : WriteRow(c, r, content)

StoreSpec == StoreInit /\ [][StoreNext]_storeVars
=============================================================================
