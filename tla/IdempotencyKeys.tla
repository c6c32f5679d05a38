--------------------------- MODULE IdempotencyKeys ---------------------------
(***************************************************************************)
(* lib/idempotency.ts: the middleware that a route moving money is wrapped *)
(* in.  A request with an Idempotency-Key claims the key by inserting it   *)
(* under a unique index; a request that finds it taken is refused while    *)
(* the first one runs, is given its answer when it succeeded, and takes    *)
(* the key over when it failed.  A request without a key goes straight to  *)
(* the handler.                                                            *)
(*                                                                         *)
(* The handler is that of the module that extends this one.  All requests  *)
(* of one key have the same body.                                          *)
(***************************************************************************)
CONSTANTS
  Requests,    \* HTTP requests to the route
  Keys,
  NoKey,       \* the key of a request that sends none
  KeyOf        \* KeyOf[r]: the key request r sends

ASSUME KeysAssumption == NoKey \notin Keys /\ KeyOf \in [Requests -> Keys \cup {NoKey}]

VARIABLES
  key,         \* key[k]: status of its row, "none" without one
  at,          \* at[r]: where request r is, or how it ended
  unguarded    \* history: keys two requests may run under: two retries took over the same
               \* failure, or a retry found the key purged after its insert was refused

keyVars == <<key, at, unguarded>>

KeyInit ==
  /\ key = [k \in Keys |-> "none"]
  /\ at = [r \in Requests |-> "idle"]
  /\ unguarded = {}

Goto(r, place) == at' = [at EXCEPT ![r] = place]
SetKey(r, status) == key' = [key EXCEPT ![KeyOf[r]] = status]

Running(k) == {r \in Requests : KeyOf[r] = k /\ at[r] = "handling"}

\* Mutant: the row is written, whether it exists or not.
ClaimAnyway(r) ==
  /\ at[r] = "idle" /\ KeyOf[r] # NoKey
  /\ SetKey(r, "IN_PROGRESS")
  /\ Goto(r, "handling")
  /\ UNCHANGED unguarded

\* The insert, which the unique index refuses to all but one.
Claim(r) ==
  /\ at[r] = "idle" /\ KeyOf[r] # NoKey
  /\ IF key[KeyOf[r]] = "none"
     THEN SetKey(r, "IN_PROGRESS") /\ Goto(r, "handling")
     ELSE Goto(r, "known") /\ UNCHANGED key
  /\ UNCHANGED unguarded

PassWithoutKey(r) ==
  /\ at[r] = "idle" /\ KeyOf[r] = NoKey
  /\ Goto(r, "handling")
  /\ UNCHANGED <<key, unguarded>>

\* The row is read.  One that was purged since the insert lets the request through.
Lookup(r) ==
  LET k == KeyOf[r] IN
  /\ at[r] = "known"
  /\ \/ key[k] = "none" /\ Goto(r, "handling") /\ unguarded' = unguarded \cup {k}
     \/ key[k] = "IN_PROGRESS" /\ Goto(r, "conflict") /\ UNCHANGED unguarded
     \/ key[k] = "COMPLETED" /\ Goto(r, "replayed") /\ UNCHANGED unguarded
     \/ key[k] = "FAILED" /\ Goto(r, "retrying") /\ UNCHANGED unguarded
  /\ UNCHANGED key

\* A failed key is put in progress again, by id: nothing says that it is still failed.  A row
\* purged in between makes the update throw outside any handler: no answer is given.
Reclaim(r) ==
  /\ at[r] = "retrying"
  /\ IF key[KeyOf[r]] = "none"
     THEN Goto(r, "lost") /\ UNCHANGED <<key, unguarded>>
     ELSE /\ SetKey(r, "IN_PROGRESS")
          /\ Goto(r, "handling")
          /\ unguarded' = IF key[KeyOf[r]] = "FAILED" THEN unguarded
                          ELSE unguarded \cup {KeyOf[r]}

\* The answer waits for the key: COMPLETED with a success, FAILED with an error, whatever the
\* row says; a row that is gone is only logged.
Answer(r, ok) ==
  /\ at[r] = "handling"
  /\ IF KeyOf[r] = NoKey \/ key[KeyOf[r]] = "none" THEN UNCHANGED key
     ELSE SetKey(r, IF ok THEN "COMPLETED" ELSE "FAILED")
  /\ Goto(r, IF ok THEN "answered" ELSE "refused")
  /\ UNCHANGED unguarded

\* purgeExpiredKeys, a day after the key was taken: no request of that day still runs.
Purge(k) ==
  /\ key[k] # "none" /\ Running(k) = {}
  /\ key' = [key EXCEPT ![k] = "none"]
  /\ UNCHANGED <<at, unguarded>>

KeyTypeOK ==
  /\ key \in [Keys -> {"none", "IN_PROGRESS", "COMPLETED", "FAILED"}]
  /\ at \in [Requests -> {"idle", "known", "retrying", "handling", "conflict", "replayed",
                          "answered", "refused", "lost"}]
  /\ unguarded \subseteq Keys
  /\ \A r \in Requests : at[r] \in {"known", "retrying"} => KeyOf[r] \in Keys

\* Two runs of one operation never coexist: a key runs one request at a time, except one whose
\* failure two retries have taken over or that was purged under a retry.
OneAtATime ==
  \A k \in Keys \ unguarded : \A r, x \in Running(k) : r = x
=============================================================================
