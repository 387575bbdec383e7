-------------------------------- MODULE Store --------------------------------
(***************************************************************************)
(* internal/store/memory.go: the key-value store with expiry that the      *)
(* replay guard, the bootstrap handler, the deduplicator and the caches    *)
(* share.  The modules of those components extend this one.                *)
(*                                                                         *)
(* An item is a record of a value and the time it expires at, 0 if never.  *)
(* The clock starts at 1, so that 0 stands for Go's zero time.  Every      *)
(* operation changes the map under m.mu and so is one step; SetNX and the  *)
(* janitor read the clock before they take the lock, and get that earlier  *)
(* reading as the argument seen.                                           *)
(*                                                                         *)
(* internal/store/redis.go runs the same operations in a server.  There a  *)
(* command reads the clock and changes the map in one step (seen = now),   *)
(* outlives the process, and may also fail: a failed command may or may    *)
(* not have been executed.  Which of the two a process uses is settled by  *)
(* REDIS_URL when it starts (newStore in cmd/muthur/main.go).              *)
(***************************************************************************)
EXTENDS Integers

CONSTANTS
  NoItem,        \* the value of an absent key
  MaxTime        \* bound: the clock stops here

VARIABLES
  redis,         \* TRUE: the shared store; FALSE: the in-memory one
  now,           \* the clock
  items          \* key -> Item or NoItem

Item == [val : Nat, expiresAt : Nat]

ASSUME StoreAssumption == NoItem \notin Item

StoreInit(Key) ==
  /\ redis \in BOOLEAN
  /\ now = 1
  /\ items = [k \in Key |-> NoItem]

\* Mutation: an item is expired in the very instant expiresAt.
expired_Inclusive(it, t) == it.expiresAt # 0 /\ t >= it.expiresAt

\* memItem.expired
expired(it, t) == it.expiresAt # 0 /\ t > it.expiresAt

\* expiry
expiry(ttl) == IF ttl <= 0 THEN 0 ELSE now + ttl

\* Whether Get or SetNX, reading the clock as t, finds key k.
Live(k, t) == items[k] # NoItem /\ ~expired(items[k], t)

Set(k, v, ttl) ==
  items' = [items EXCEPT ![k] = [val |-> v, expiresAt |-> expiry(ttl)]]

\* SetNX returns true.
SetNX(k, v, ttl, seen) == ~Live(k, seen) /\ Set(k, v, ttl)

\* SetNX returns false.
SetNXFinds(k, seen) == Live(k, seen) /\ UNCHANGED items

\* SetNX returns an error: the command had no effect, or it was executed and
\* only its answer is lost.
SetNXFails(k, v, ttl) == redis /\ (UNCHANGED items \/ SetNX(k, v, ttl, now))

Delete(k) == items' = [items EXCEPT ![k] = NoItem]

\* One tick of the janitor, or Redis's own eviction.  The clock reading may be
\* old when the lock is granted.
janitor ==
  \E seen \in 1..now :
    /\ items' = [k \in DOMAIN items |->
                   IF items[k] # NoItem /\ expired(items[k], seen)
                   THEN NoItem ELSE items[k]]
    /\ items' # items
    /\ UNCHANGED now

\* The process ends and is started again: the in-memory map is gone.
StoreRestart ==
  items' = IF redis THEN items ELSE [k \in DOMAIN items |-> NoItem]
=============================================================================
