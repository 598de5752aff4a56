------------------------------ MODULE ResultCache ------------------------------
(***************************************************************************)
(* The sqlite-backed cache of expensive responses, go/ckit/cache/cache.go. *)
(* A key without a row holds NoValue, which is also what Get makes of a    *)
(* row with an empty value.  Set and Flush run under the mutex and are one *)
(* step each; Get and ItemCount take no lock.                              *)
(***************************************************************************)
EXTENDS Integers, FiniteSets

CONSTANTS Key, Value, NoValue,
          MaxFileSize, \* Cache.MaxFileSize, in rows
          CacheFaults  \* may a statement or a Stat of the file fail?

VARIABLES rows,     \* the table map
          fileSize, \* what os.Stat reports, in rows
          readOnly,
          watcher   \* the goroutine of startSizeWatcher

cacheVars == <<rows, fileSize, readOnly, watcher>>

CacheTypeOK ==
  /\ rows \in [Key -> Value \cup {NoValue}]
  /\ fileSize \in Nat
  /\ readOnly \in BOOLEAN
  /\ watcher \in {"watching", "tripped", "stopped"}

Keys(t) == {k \in Key : t[k] # NoValue}

(* ItemCount *)
ItemCount == Cardinality(Keys(rows))

(* New, with init and startSizeWatcher *)
CacheInit ==
  /\ rows = [k \in Key |-> NoValue]
  /\ fileSize = 0
  /\ readOnly = FALSE
  /\ watcher = "watching"

-----------------------------------------------------------------------------
Hit(k) == rows[k] # NoValue
Miss(k) == rows[k] = NoValue

(* SQLite reuses the pages of deleted rows and gives none back to the file *)
(* system, so the file is as large as the table has ever been.             *)
Grow(size, t) == IF Cardinality(Keys(t)) > size THEN Cardinality(Keys(t)) ELSE size

(* Mutant: the mode is not looked at. *)
SetAnyway(k, v) ==
  /\ rows' = [rows EXCEPT ![k] = v]
  /\ fileSize' = Grow(fileSize, rows')
  /\ UNCHANGED <<readOnly, watcher>>

(* Set: INSERT OR REPLACE, under the lock, unless the cache is read-only.  *)
Set(k, v) ==
  /\ ~readOnly
  /\ rows' = [rows EXCEPT ![k] = v]
  /\ fileSize' = Grow(fileSize, rows')
  /\ UNCHANGED <<readOnly, watcher>>

(* Mutant: the early return of Set keeps the lock, so the next Set hangs. *)
SetHangs == FALSE

SetReadOnly == readOnly /\ UNCHANGED cacheVars

(* Any statement may fail, with "database is locked" after the driver's    *)
(* busy timeout if with nothing else; it then changes nothing.             *)
StatementFails == CacheFaults /\ UNCHANGED cacheVars

(* Mutant: a purge that gives the pages back. *)
FlushAndVacuum ==
  /\ rows' = [k \in Key |-> NoValue]
  /\ fileSize' = 0
  /\ UNCHANGED <<readOnly, watcher>>

(* Flush: DELETE FROM map, under the lock; the mode stays as it is.        *)
Flush ==
  /\ rows' = [k \in Key |-> NoValue]
  /\ UNCHANGED <<fileSize, readOnly, watcher>>

(***************************************************************************)
(* The size watcher, every 30 seconds: Stat the file and, if it is too     *)
(* large, take the lock and set readOnly.  Stat happens before the lock is *)
(* taken, so a Set may come in between.  Either way out of the loop is for *)
(* good.                                                                   *)
(***************************************************************************)
OverLimit == fileSize > MaxFileSize

(* Mutant: the watcher counts items instead of asking for the file size. *)
TickByItems ==
  /\ watcher = "watching"
  /\ ItemCount > MaxFileSize
  /\ watcher' = "tripped"
  /\ UNCHANGED <<rows, fileSize, readOnly>>

Tick ==
  /\ watcher = "watching"
  /\ OverLimit
  /\ watcher' = "tripped"
  /\ UNCHANGED <<rows, fileSize, readOnly>>

SwitchToReadOnly ==
  /\ watcher = "tripped"
  /\ readOnly' = TRUE
  /\ watcher' = "stopped"
  /\ UNCHANGED <<rows, fileSize>>

StatFails ==
  /\ CacheFaults
  /\ watcher = "watching"
  /\ watcher' = "stopped"
  /\ UNCHANGED <<rows, fileSize, readOnly>>

Watch == Tick \/ SwitchToReadOnly

-----------------------------------------------------------------------------
(* Once the cache has switched to read-only mode it stays there, no key    *)
(* gains a row or a new value, and the file does not grow: the limit of    *)
(* startSizeWatcher is a limit on every later Set, however it interleaves  *)
(* with the switch (cache.go:91-97 and 139-148).                           *)
ReadOnlyIsFinal ==
  [][readOnly => /\ readOnly'
                 /\ \A k \in Key : rows'[k] \in {rows[k], NoValue}
                 /\ fileSize' = fileSize]_cacheVars

(* The limit is enforced: a file that is over the limit eventually makes   *)
(* the cache read-only, whatever purges come in between, since no purge    *)
(* makes the file smaller.  It holds as long as Stat does not fail, which  *)
(* ends the watcher for good (cache.go:82-101, 121-126).                   *)
LimitEnforced == OverLimit ~> readOnly

(* Read-only mode has a reason: the file has gone over the limit, and a    *)
(* later purge does not take that back (cache.go:91-96).                   *)
ReadOnlyOnlyOverLimit == (readOnly \/ watcher = "tripped") => OverLimit
=============================================================================
