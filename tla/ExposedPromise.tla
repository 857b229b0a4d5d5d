--------------------------- MODULE ExposedPromise ---------------------------
(***************************************************************************)
(* The ExposedPromise of beacon-utils: a promise that is settled from the  *)
(* outside, by whoever holds it.  It is the primitive every hand-over in   *)
(* the SDK is built on: an open request, the active account, the active    *)
(* transport and the relay server are each one of them.  A promise is a    *)
(* value here; the owner keeps it in one of its own variables.             *)
(***************************************************************************)

\* The status a promise is in and the value (or the error) it was settled with.
Promise(Values) ==
  [status : {"pending", "resolved", "rejected"}, value : Values]

\* `new ExposedPromise()`; nothing stands for `undefined`.
NewPromise(nothing) == [status |-> "pending", value |-> nothing]

IsPending(p) == p.status = "pending"
IsResolved(p) == p.status = "resolved"
IsRejected(p) == p.status = "rejected"
IsSettled(p) == IsResolved(p) \/ IsRejected(p)

\* resolve() and reject() return without effect once the promise is settled.
Resolve(p, v) ==
  IF IsSettled(p) THEN p ELSE [status |-> "resolved", value |-> v]

Reject(p, e) ==
  IF IsSettled(p) THEN p ELSE [status |-> "rejected", value |-> e]

=============================================================================
