----------------------------- MODULE TurnCompletion ----------------------------
(***************************************************************************)
(* src/task/turn-completion.ts: the in-process map from a Flue instance to *)
(* the deferred outcome of its turn.  One entry is                         *)
(*   open : the map has the key,                                           *)
(*   held : the handlers that hold the promise of that entry.              *)
(* A handler whose entry is deleted without being resolved holds a promise *)
(* that nobody can resolve any more.                                       *)
(***************************************************************************)

TurnOutcome == {"completed", "failed", "cancelled"}

NoWaiter == [open |-> FALSE, held |-> {}]

\* Create the deferred wait, or share the one that exists.
WaitForTurnOutcome(entry, h) == [open |-> TRUE, held |-> entry.held \cup {h}]

\* What resolveTurnOutcome does to the map, and to the outcome of handler h.
ResolvedEntry(entry) == NoWaiter

ResolvedFor(entry, h, kind, before) == IF h \in entry.held THEN kind ELSE before

\* Deletes the entry and resolves nothing.
ClearTurnWaiter(entry) == NoWaiter

\* A handler that returns drops its promise; the entry stays.
Forget(entry, h) == [entry EXCEPT !.held = @ \ {h}]

================================================================================
