------------------------------- MODULE HttpApi -------------------------------
(***************************************************************************)
(* The HTTP API of the replicas.  A route checks the body, runs its use    *)
(* case and then, in a statement of its own, reads the order back to       *)
(* answer with it; errorHandler turns what is thrown on the way into a     *)
(* status code.  Between use case and answer the order is anybody's.       *)
(***************************************************************************)
EXTENDS ExecutionUseCases

CONSTANTS
    Replicas,   \* the pods of the service
    Clients     \* the calls that serve requests, one per mechanic

ASSUME ClientsAssumption == Clients \subseteq Calls

VARIABLE
    requests    \* what each request awaits, then how it was answered

NoRequest == [await |-> "nothing"]

RequestOps == {"RegisterDiagnosis", "StartExecution", "FinishExecution", "FailExecution"}

(* Mutant: whatever a use case throws at a row that is there is a conflict. *)
ConflictsAll == Failures \ {"NotFoundError"}

Conflicts == {"InvalidTransitionError", "NotHeadOfQueueError"}

(* errorHandler.  The last case has the failed statements, and the         *)
(* SyntaxError of express.json, whose own status errorHandler ignores.     *)
CodeOf(outcome) ==
    CASE outcome = "ok"              -> 200
      [] outcome = "NotFoundError"   -> 404
      [] outcome \in Conflicts       -> 409
      [] outcome = "ValidationError" -> 422
      [] OTHER                       -> 500

Answered(outcome, took) == [await |-> "answered", code |-> CodeOf(outcome), took |-> took]

HttpInit == requests = [c \in Clients |-> NoRequest]

Awaiting(c, await) == requests[c].await = await

Answers(c, outcome) ==
    requests' = [requests EXCEPT ![c] = Answered(outcome, @.took)]

-----------------------------------------------------------------------------
(* A client that has its answer, or never had one, may ask again. *)
Asks(c) == Awaiting(c, "nothing") \/ Awaiting(c, "answered")

Frame(r, await, op, o) ==
    [await |-> await, replica |-> r, op |-> op, order |-> o, took |-> FALSE]

(* PATCH with a body that the route understands. *)
Patch(r, c, op, o, d) ==
    /\ Asks(c)
    /\ op \in RequestOps
    /\ Begin(c, op, o, d)
    /\ requests' = [requests EXCEPT ![c] = Frame(r, "useCase", op, o)]

(* A body without what the diagnosis or the failure needs, or no JSON.     *)
BadRequest(c) ==
    /\ Asks(c)
    /\ \E error \in {"ValidationError", "SyntaxError"} :
          requests' = [requests EXCEPT ![c] = Answered(error, FALSE)]
    /\ UNCHANGED vars

Get(r, c, o) ==
    /\ Asks(c)
    /\ requests' = [requests EXCEPT ![c] = Frame(r, "readBack", "GetExecutionOrder", o)]
    /\ UNCHANGED vars

(* A step of the use case, and of the route when it returns or throws.     *)
(* took is history: whether a step of this request changed the tables.     *)
Serve(c, out) ==
    /\ Awaiting(c, "useCase")
    /\ Step(c, out)
    /\ LET took == requests[c].took \/ rows' # rows \/ outbox' # outbox
       IN  \/ /\ out = "pending"
              /\ requests' = [requests EXCEPT ![c].took = took]
           \/ /\ out = "ok"
              /\ requests' = [requests EXCEPT ![c].took = took, ![c].await = "readBack"]
           \/ /\ out \in Failures
              /\ requests' = [requests EXCEPT ![c] = Answered(out, took)]

(* GetExecutionOrder: the row there is now. *)
ReadBack(c, out) ==
    /\ Awaiting(c, "readBack")
    /\ out = IF rows[requests[c].order].status = Absent THEN "NotFoundError" ELSE "ok"
    /\ Answers(c, out)
    /\ UNCHANGED vars

ReadFails(c) ==
    /\ Awaiting(c, "readBack")
    /\ Answers(c, "QueryFailedError")
    /\ UNCHANGED vars

-----------------------------------------------------------------------------
RequestTypes ==
    {NoRequest} \cup
    [await : {"answered"}, code : {200, 404, 409, 422, 500}, took : BOOLEAN] \cup
    [await : {"useCase", "readBack"}, replica : Replicas, order : Orders,
     op : RequestOps \cup {"GetExecutionOrder"}, took : BOOLEAN]

(* A client told 404, 409 or 422 may take it that its request changed      *)
(* nothing: no error of these is thrown once a statement of the request    *)
(* has changed the tables, nor by the read that follows the use case.  An  *)
(* answer that was lost or a read-back that failed is a 500.               *)
RefusalsChangeNothing ==
    \A c \in Clients :
        Awaiting(c, "answered") /\ requests[c].code \in {404, 409, 422} =>
            ~requests[c].took

(* The lifecycle from what each request leads to on. *)
StagesFrom ==
    LET ends == {"FINISHED", "FAILED"} IN
    [RegisterDiagnosis |-> Diagnosed \cup {"CANCELLED"},
     StartExecution    |-> {"IN_EXECUTION"} \cup ends,
     FinishExecution   |-> {"FINISHED"},
     FailExecution     |-> {"FAILED"}]

(* The order shown with a 200 is never behind the request it answers: when *)
(* a route reads back, its order is in the stage the use case led to or a  *)
(* later one, unless calls in flight have shared the order.                *)
SoloAnswersShowTheChange ==
    \A c \in Clients :
        /\ Awaiting(c, "readBack")
        /\ requests[c].op \in RequestOps
        /\ requests[c].order \notin overlapped
        => rows[requests[c].order].status \in StagesFrom[requests[c].op]
=============================================================================
