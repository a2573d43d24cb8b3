------------------------------- MODULE Errors -------------------------------
(***************************************************************************)
(* How an error becomes the status of an answer (shared/errors and         *)
(* infrastructure/middleware/recover.ts).  An error is the sequence of the *)
(* objects of its cause chain, the one that was thrown first.  No code of  *)
(* the repository builds a cyclic chain, which sentinelFor would also walk *)
(* only once.                                                              *)
(***************************************************************************)
EXTENDS Integers, Sequences

Object(class, name, owner) == [class |-> class, name |-> name, owner |-> owner]
AppError(code) == Object("AppError", code, "shared")
Failure(name, owner) == Object("Error", name, owner)

NoError == <<>>
NoSentinel == 0

StatusOf == [
    NOT_FOUND |-> 404, INVALID_INPUT |-> 400, UNAUTHORIZED |-> 401, FORBIDDEN |-> 403,
    CONFLICT |-> 409, CANCELED |-> 499, DEADLINE_EXCEEDED |-> 504, INTERNAL |-> 500]

ErrNotFound == AppError("NOT_FOUND")
ErrInvalidInput == AppError("INVALID_INPUT")
ErrConflict == AppError("CONFLICT")

RegisterSentinel(sentinel, app) == [sentinel |-> sentinel, app |-> app]

(* The walk ends at the first cause that is not an Error. *)
OnChain(err, object) ==
    \E i \in DOMAIN err : err[i] = object /\ \A j \in 1 .. i : err[j].class # "value"

(* The first registered entry that is on the chain, not the nearest one.   *)
SentinelFor(registered, err) ==
    LET matches == {i \in DOMAIN registered : OnChain(err, registered[i].sentinel)}
    IN IF matches = {} THEN NoSentinel ELSE CHOOSE i \in matches : \A j \in matches : i <= j

HttpError(registered, err) ==
    CASE err = NoError -> 200
      [] err # NoError /\ err[1].class = "AppError" -> StatusOf[err[1].name]
      [] err # NoError /\ err[1].class = "Error" ->
             LET i == SentinelFor(registered, err)
             IN CASE i # NoSentinel -> StatusOf[registered[i].app.name]
                  [] i = NoSentinel /\ err[1].name = "TimeoutError" -> 504
                  [] i = NoSentinel /\ err[1].name = "AbortError" -> 499
                  [] OTHER -> 500
      [] OTHER -> 500

BodyTooLargeError == <<Failure("BodyTooLargeError", "middleware")>>

(* The error hook of the server; code is what the framework says of it.    *)
Recover(registered, err, code) ==
    CASE err = BodyTooLargeError -> 413
      [] err # BodyTooLargeError /\ code \in {"VALIDATION", "PARSE"} ->
             HttpError(registered, <<ErrInvalidInput>>)
      [] err # BodyTooLargeError /\ code = "NOT_FOUND" -> HttpError(registered, <<ErrNotFound>>)
      [] OTHER -> HttpError(registered, err)
=============================================================================
