----------------------------- MODULE Idempotency -----------------------------
(***************************************************************************)
(* Idempotency keys: the interceptor in front of the creation of payments  *)
(* (src/common/idempotency, src/common/locking, used by                    *)
(* src/payments/payments.controller.ts).                                   *)
(*                                                                         *)
(* One key, sent with several attempts; each names the path it asks for.   *)
(* The lock is a Redis key with a lifetime and the token of its owner.     *)
(* What the handler does is one effect that is there when it answers, and  *)
(* may be there when it throws.  A request without a key goes straight to  *)
(* the handler and is left out.                                            *)
(***************************************************************************)
EXTENDS Integers, FiniteSets

CONSTANTS Tries,    \* requests that carry the key
          Paths     \* the paths they may ask for

ASSUME KeyConstants ==
  /\ IsFiniteSet(Tries)
  /\ Tries \cap {"nobody", "none", "conflict", "error"} = {} /\ "none" \notin Paths

VARIABLES
  keyLock,   \* the try whose token is in the lock, or "nobody"
  keyRow,    \* the row IdempotencyKey: path and answer, or NoRow
  attempt,   \* try -> where it is, its path and what it was answered
  effects,   \* history: the tries whose handler has had its effect
  lapses     \* history: locks lost by a live holder, deaths and throws after the effect

keyVars == <<keyLock, keyRow, attempt, effects, lapses>>

KeyRows == [path : Paths, answer : Tries]
NoRow == [path |-> "none", answer |-> "none"]
Stages == {"new", "locked", "handling", "storing", "releasing", "done"}
KeyAnswers == {"none", "conflict", "error"} \cup Tries   \* a try: the answer of its handler

KeyTypeOK ==
  /\ keyLock \in Tries \cup {"nobody"}
  /\ keyRow \in {NoRow} \cup KeyRows
  /\ attempt \in [Tries -> [stage : Stages, path : {"none"} \cup Paths, answer : KeyAnswers]]
  /\ effects \subseteq Tries
  /\ lapses \in Nat

KeyInit ==
  /\ keyLock = "nobody" /\ keyRow = NoRow
  /\ attempt = [t \in Tries |-> [stage |-> "new", path |-> "none", answer |-> "none"]]
  /\ effects = {} /\ lapses = 0

---------------------------------------------------------------------------
Reach(t, stage, answer) == attempt' = [attempt EXCEPT ![t].stage = stage, ![t].answer = answer]

AcquireKey(t, path) ==
  /\ attempt[t].stage = "new"
  /\ keyLock' = IF keyLock = "nobody" THEN t ELSE keyLock
  /\ attempt' = [attempt EXCEPT ![t] = IF keyLock = "nobody"
                                         THEN [stage |-> "locked", path |-> path, answer |-> "none"]
                                         ELSE [stage |-> "done", path |-> path, answer |-> "conflict"]]
  /\ UNCHANGED <<keyRow, effects, lapses>>

\* Mutant: a stored answer is not looked for.
HandleAlways(t) ==
  /\ attempt[t].stage = "locked"
  /\ Reach(t, "handling", "none")
  /\ UNCHANGED <<keyLock, keyRow, effects, lapses>>

FindKey(t) ==
  /\ attempt[t].stage = "locked"
  /\ IF keyRow = NoRow THEN Reach(t, "handling", "none")
     ELSE Reach(t, "releasing", IF keyRow.path = attempt[t].path THEN keyRow.answer ELSE "conflict")
  /\ UNCHANGED <<keyLock, keyRow, effects, lapses>>

\* The handler answers, throws before its effect, or throws after it.
Handle(t) ==
  /\ attempt[t].stage = "handling"
  /\ \/ Reach(t, "storing", t) /\ effects' = effects \cup {t} /\ UNCHANGED lapses
     \/ Reach(t, "releasing", "error") /\ UNCHANGED <<effects, lapses>>
     \/ Reach(t, "releasing", "error") /\ effects' = effects \cup {t} /\ lapses' = lapses + 1
  /\ UNCHANGED <<keyLock, keyRow>>

\* The key is unique: a second row is refused, and the request with it.
StoreKey(t) ==
  /\ attempt[t].stage = "storing"
  /\ IF keyRow = NoRow THEN keyRow' = [path |-> attempt[t].path, answer |-> t] /\ Reach(t, "releasing", t)
                       ELSE Reach(t, "releasing", "error") /\ UNCHANGED keyRow
  /\ UNCHANGED <<keyLock, effects, lapses>>

\* The script deletes the lock only if it holds this token.
ReleaseKey(t) ==
  /\ attempt[t].stage = "releasing"
  /\ keyLock' = IF keyLock = t THEN "nobody" ELSE keyLock
  /\ Reach(t, "done", attempt[t].answer)
  /\ UNCHANGED <<keyRow, effects, lapses>>

\* The lock's ten seconds are over, whether or not its owner is.
ExpireKeyLock ==
  /\ keyLock # "nobody"
  /\ keyLock' = "nobody"
  /\ lapses' = IF attempt[keyLock].stage \in {"locked", "handling", "storing"} THEN lapses + 1 ELSE lapses
  /\ UNCHANGED <<keyRow, attempt, effects>>

\* The process dies; its lock stays until it expires.
DieWithKey(t) ==
  /\ attempt[t].stage \in {"locked", "handling", "storing", "releasing"}
  /\ Reach(t, "done", "error")
  /\ lapses' = IF attempt[t].stage = "storing" THEN lapses + 1 ELSE lapses
  /\ UNCHANGED <<keyLock, keyRow, effects>>

KeyNext ==
  \/ \E t \in Tries : (\E path \in Paths : AcquireKey(t, path)) \/ FindKey(t) \/ Handle(t) \/ StoreKey(t) \/ ReleaseKey(t) \/ DieWithKey(t)
  \/ ExpireKeyLock

KeySpec == KeyInit /\ [][KeyNext]_keyVars

---------------------------------------------------------------------------
(* However often a request is repeated, its handler has its effect once,   *)
(* and once more for each lock lost by a live holder, each death between   *)
(* the effect and the key, and each handler that threw after its effect.   *)
RunsOnce == Cardinality(effects) <= 1 + lapses

(* Every try that is answered as the first was, asked for the same path    *)
(* and got the answer of a handler that did run.                           *)
SameAnswer ==
  \A t \in Tries : attempt[t].answer \in Tries =>
     /\ attempt[t].answer \in effects
     /\ attempt[attempt[t].answer].path = attempt[t].path
     /\ attempt[t].stage = "done" => keyRow.answer = attempt[t].answer

(* A key stands for one effect and one answer.                             *)
KeySound == RunsOnce /\ SameAnswer
=============================================================================
