----------------------------- MODULE Handlers -----------------------------
(***************************************************************************)
(* What the handlers of all components share: a request arrives, runs from *)
(* one await to the next, interleaved with the others in flight, and is    *)
(* answered once with a status.  Component modules extend this one and add *)
(* their tables.                                                           *)
(***************************************************************************)
EXTENDS Integers, FiniteSets

CONSTANTS
    Requests,       \* requests, each handled once; its name is the id of what it creates
    Nobody,         \* no request, no row
    MaxInFlight,    \* requests handled at the same time
    MaxFailures     \* bound: statements the database answers with an error

ASSUME HandlersAssumption ==
    /\ Nobody \notin Requests
    /\ MaxInFlight \in Nat \ {0} /\ MaxFailures \in Nat

VARIABLES
    call,       \* call[r]: the label r is at and the locals of its handler
    answer,     \* answer[r]: the status r was answered with, or Pending
    failures,   \* statements answered with an error
    alone       \* history: requests no other request overlapped

handlers == <<call, answer, failures, alone>>

Pending == 0
Statuses == {200, 201, 204, 400, 401, 403, 404, 409, 500}

(* The locals: the operation, the row it names, what the body asks for,    *)
(* and what the handler has read so far.                                   *)
Idle == [pc |-> "idle", op |-> "none", id |-> Nobody, arg |-> Nobody, read |-> Nobody]

Done(op) == [Idle EXCEPT !.pc = "done", !.op = op]

HandlersInit ==
    /\ call = [r \in Requests |-> Idle]
    /\ answer = [r \in Requests |-> Pending]
    /\ failures = 0
    /\ alone = {}

At(r, label) == call[r].pc = label
On(r, op, label) == At(r, label) /\ call[r].op = op
InFlight == {r \in Requests : ~ At(r, "idle") /\ ~ At(r, "done")}
Overlapped == {r \in Requests : ~ At(r, "idle")} \ alone

(* A route hands a request to its controller method.                       *)
Arrive(r, label, op, id, arg) ==
    /\ At(r, "idle")
    /\ Cardinality(InFlight) < MaxInFlight
    /\ call' = [call EXCEPT ![r] =
                   [pc |-> label, op |-> op, id |-> id, arg |-> arg, read |-> Nobody]]
    /\ alone' = IF InFlight = {} THEN alone \cup {r} ELSE alone \ InFlight
    /\ UNCHANGED <<answer, failures>>

(* A request that ends before its first await.                             *)
Refuse(r, op, status) ==
    /\ At(r, "idle")
    /\ call' = [call EXCEPT ![r] = Done(op)]
    /\ answer' = [answer EXCEPT ![r] = status]
    /\ UNCHANGED <<failures, alone>>

(* authMiddleware: the token is missing, malformed, expired or not ours.   *)
(* A valid one is all it asks for: neither the user's row nor that it is   *)
(* active or exists.                                                       *)
Unauthenticated(r) == Refuse(r, "authMiddleware", 401)

Goto(r, label) ==
    /\ call' = [call EXCEPT ![r].pc = label]
    /\ UNCHANGED <<answer, failures, alone>>

(* The next await, with something read.                                    *)
Keep(r, read, label) ==
    /\ call' = [call EXCEPT ![r].pc = label, ![r].read = read]
    /\ UNCHANGED <<answer, failures, alone>>

(* res.status(...): nothing the handler does after it is modelled.         *)
Reply(r, status) ==
    /\ call' = [call EXCEPT ![r] = Done(@.op)]
    /\ answer' = [answer EXCEPT ![r] = status]
    /\ UNCHANGED <<failures, alone>>

(* The query of a permission: the row is there, and the user's.            *)
Permit(r, op, allowed, next, refusal) ==
    /\ On(r, op, "check")
    /\ IF allowed THEN Goto(r, next) ELSE Reply(r, refusal)

(* The statement r is at fails, and the catch of the controller answers.   *)
FailWith(r, status) ==
    /\ failures < MaxFailures
    /\ failures' = failures + 1
    /\ call' = [call EXCEPT ![r] = Done(@.op)]
    /\ answer' = [answer EXCEPT ![r] = status]
    /\ UNCHANGED alone

AllAnswered == \A r \in Requests : At(r, "done")

=============================================================================
