--------------------------- MODULE TenantsReloader ---------------------------
(***************************************************************************)
(* internal/auth/tenants_reloader.go: the tenants snapshot that every      *)
(* request consults is re-read from a file whose mtime has advanced.       *)
(*                                                                         *)
(* The file is rewritten by somebody else while the poller stats and reads *)
(* it in two system calls.  Its n-th version holds a tenants list, or,     *)
(* for n in Bad, something that yaml.Unmarshal or NewTenants rejects.      *)
(* If atomic, a version replaces the file at once, as when Kubernetes      *)
(* swaps a mounted ConfigMap.  Otherwise the writer truncates the file and *)
(* fills it.  A Coarse clock may give two steps of the writer the same     *)
(* mtime.  An empty file is valid YAML: it lists no tenants.               *)
(***************************************************************************)
EXTENDS Integers

CONSTANTS
  MaxVersion,    \* bound: versions the writer produces
  Bad,           \* the versions that are rejected
  Coarse,        \* TRUE: two steps of the writer may get the same mtime
  Empty          \* the contents of a truncated file

ASSUME ReloaderAssumption ==
  /\ MaxVersion \in Nat \ {0}
  /\ Bad \subseteq 2..MaxVersion
  /\ Coarse \in BOOLEAN
  /\ Empty \notin Int

VARIABLES
  atomic,    \* TRUE: a version replaces the file in one step; never changes
  file,      \* [content, mtime]: what is on disk
  version,   \* the number of the last version begun
  clock,     \* the file system's clock
  cached,    \* [tenants, mtime]: the snapshot, tenantsState
  poll,      \* where the poller is: idle, or between Stat and ReadFile
  statted    \* the mtime Stat returned

vars == <<atomic, file, version, clock, cached, poll, statted>>

Version == 1..MaxVersion
Valid == Version \ Bad

\* NewTenantsReloader has loaded nothing yet.
Init ==
  /\ atomic \in BOOLEAN
  /\ file = [content |-> 1, mtime |-> 1]
  /\ version = 1
  /\ clock = 1
  /\ cached = [tenants |-> 0, mtime |-> 0]
  /\ poll = "idle"
  /\ statted = 0
-----------------------------------------------------------------------------
Later == IF Coarse THEN {clock, clock + 1} ELSE {clock + 1}

\* The writer puts the next version in place.
Replace ==
  /\ atomic
  /\ version < MaxVersion
  /\ version' = version + 1
  /\ clock' \in Later
  /\ file' = [content |-> version', mtime |-> clock']
  /\ UNCHANGED <<atomic, cached, poll, statted>>

\* The writer truncates the file.
Truncate ==
  /\ ~atomic
  /\ version < MaxVersion /\ file.content # Empty
  /\ version' = version + 1
  /\ clock' \in Later
  /\ file' = [content |-> Empty, mtime |-> clock']
  /\ UNCHANGED <<atomic, cached, poll, statted>>

\* The writer fills the truncated file.
Fill ==
  /\ file.content = Empty
  /\ clock' \in Later
  /\ file' = [content |-> version, mtime |-> clock']
  /\ UNCHANGED <<atomic, version, cached, poll, statted>>
-----------------------------------------------------------------------------
\* Mutation: the mtime must have advanced by more than one unit.
StatAdvanced_Margin ==
  /\ poll = "idle"
  /\ file.mtime > cached.mtime + 1
  /\ poll' = "statted"
  /\ statted' = file.mtime
  /\ UNCHANGED <<atomic, file, version, clock, cached>>

\* reload: the mtime has advanced past the cached one.  Otherwise, or if Stat
\* fails, reload changes nothing.
StatAdvanced ==
  /\ poll = "idle"
  /\ file.mtime > cached.mtime
  /\ poll' = "statted"
  /\ statted' = file.mtime
  /\ UNCHANGED <<atomic, file, version, clock, cached>>

\* reload: ReadFile, Unmarshal and NewTenants succeed, the snapshot is swapped.
ReadStores ==
  /\ poll = "statted"
  /\ file.content \in Valid \cup {Empty}
  /\ cached' = [tenants |-> file.content, mtime |-> statted]
  /\ poll' = "idle"
  /\ UNCHANGED <<atomic, file, version, clock, statted>>

\* Mutation: a file that cannot be loaded leaves an empty list.
ReadFails_Wipes ==
  /\ poll = "statted"
  /\ cached' = [tenants |-> Empty, mtime |-> statted]
  /\ poll' = "idle"
  /\ UNCHANGED <<atomic, file, version, clock, statted>>

\* Mutation: the new mtime is remembered although nothing was loaded.
ReadFails_RemembersMtime ==
  /\ poll = "statted"
  /\ cached' = [cached EXCEPT !.mtime = statted]
  /\ poll' = "idle"
  /\ UNCHANGED <<atomic, file, version, clock, statted>>

\* reload: ReadFile fails, or Unmarshal or NewTenants rejects the contents; the
\* snapshot stays.
ReadFails ==
  /\ poll = "statted"
  /\ poll' = "idle"
  /\ UNCHANGED <<atomic, file, version, clock, cached, statted>>

-----------------------------------------------------------------------------
\* "A failed parse keeps the previous snapshot serving" (tenants_reloader.go:43):
\* while each version replaces the file at once, no failure of reload, whatever
\* is rejected and whenever, leaves the process without tenants.
NeverWiped == atomic => cached.tenants # Empty

\* A snapshot that is out of date is noticed by the next poll: reload stats the
\* file before it reads it, so the cached mtime is never newer than the contents
\* that were read.
NoMissedUpdate ==
  cached.tenants # file.content => file.mtime > cached.mtime
=============================================================================
