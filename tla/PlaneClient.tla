---------------------------- MODULE PlaneClient ----------------------------
(***************************************************************************)
(* The Plane tools of the agents and the REST client under them:           *)
(* agent-tools.ts (parameters, deadline, errors) and plane-rest-client.ts  *)
(* (one key look-up and one HTTP request at a time, the identifier cache). *)
(*                                                                         *)
(* A tool call is a list of requests still to be made.  A request takes    *)
(* the API key, travels to Plane, is served there (the only step that      *)
(* changes Plane) and comes back; what comes back may ask for one more     *)
(* request.  The deadline of the tool answers the agent and stops nothing: *)
(* the requests of the call go on.                                         *)
(*                                                                         *)
(* Left out: the fields of a work item and the text of an answer.  A reply *)
(* is what the client branches on: whether it names the item's project and *)
(* the project's identifier.  Plane is external: it may refuse a request   *)
(* with any status, and may be cut off before or after serving it.         *)
(***************************************************************************)
EXTENDS Naturals, Sequences

CONSTANTS
    ToolCalls,      \* the tool calls the agents make
    Projects,       \* Plane projects
    MaxCallFaults   \* refusals, lost answers and missing keys explored

ASSUME ClientAssumption == MaxCallFaults \in Nat /\ "none" \notin Projects

VARIABLES
    cachedIds,      \* projects whose identifier the client has cached
    calls,          \* the state of each tool call
    planeWrites,    \* calls whose write Plane has performed
    callFaults      \* faults so far

clientVars == <<cachedIds, calls, planeWrites, callFaults>>

Reading == {"get", "search", "members", "list", "test"}
Writing == {"create", "comment", "update"}
Kinds   == {"unauthorized", "not_found", "rate_limited", "bad_request", "unavailable", "unknown"}

(* Where a request is: "ready" before it is sent, "sent" on its way to     *)
(* Plane, "served" by Plane and on its way back.                           *)
Legs == {"ready", "sent", "served"}

NoCall == [tool |-> "none", project |-> "none", readable |-> FALSE,
           todo |-> <<>>, leg |-> "ready", answer |-> "none"]

(* Seeded fault: the item is looked up after the write, for the answer.    *)
OpeningWriteFirst(tool) ==
    CASE tool \in {"comment", "update"} -> <<"write", "item">>
      [] tool = "create"                -> <<"write">>
      [] tool = "get"                   -> <<"item">>
      [] tool = "list"                  -> <<"page">>
      [] OTHER                          -> <<"read">>

(* The requests a client function is certain to make, in their order.      *)
Opening(tool) ==
    CASE tool \in {"comment", "update"} -> <<"item", "write">>
      [] tool = "create"                -> <<"write">>
      [] tool = "get"                   -> <<"item">>
      [] tool = "list"                  -> <<"page">>
      [] OTHER                          -> <<"read">>

(* The shapes of a reply: without its project, with it, and with the       *)
(* project's identifier too.                                               *)
Shapes == {"bare", "project", "named"}

(* resolveIdentifier and resolveProjectIdByIdentifier: the look-up that a  *)
(* reply makes necessary.  An item asked for by readable identifier needs  *)
(* no identifier; its project, if the reply does not say it and the cache  *)
(* neither, is looked for in the list of projects, by writers only.        *)
Needed(call, reply) ==
    LET request == Head(call.todo)
        cached  == call.project \in cachedIds
    IN CASE request = "item" /\ call.readable ->
              IF call.tool \in Writing /\ reply = "bare" /\ ~cached THEN <<"projects">> ELSE <<>>
         [] \/ request = "item" /\ ~call.readable
            \/ request = "write" /\ call.tool = "create" ->
              IF reply = "project" /\ ~cached THEN <<"project">> ELSE <<>>
         [] request = "page" -> IF cached THEN <<>> ELSE <<"project">>
         [] OTHER -> <<>>

(* The deadline's answer stands: a promise settles once.                   *)
Settle(call, answer) ==
    [call EXCEPT !.todo = <<>>, !.leg = "ready",
                 !.answer = IF call.answer = "none" THEN answer ELSE call.answer]

---------------------------------------------------------------------------
ClientInit ==
    /\ cachedIds = {}
    /\ calls = [c \in ToolCalls |-> NoCall]
    /\ planeWrites = {}
    /\ callFaults = 0

(* runTool with parameters that requireString or optPriority rejects.      *)
InvalidInput(c, tool) ==
    /\ calls[c] = NoCall
    /\ calls' = [calls EXCEPT ![c] = Settle([NoCall EXCEPT !.tool = tool], "bad_request")]
    /\ UNCHANGED <<cachedIds, planeWrites, callFaults>>

(* A search without text is answered without a request.                    *)
EmptySearch(c) ==
    /\ calls[c] = NoCall
    /\ calls' = [calls EXCEPT ![c] = Settle([NoCall EXCEPT !.tool = "search"], "ok")]
    /\ UNCHANGED <<cachedIds, planeWrites, callFaults>>

(* A call that reaches the client; an item is named by its UUID or by its  *)
(* readable identifier.                                                    *)
StartCall(c, tool, p, readable) ==
    /\ calls[c] = NoCall
    /\ readable => tool \in {"get", "comment", "update"}
    /\ calls' = [calls EXCEPT ![c] = [NoCall EXCEPT !.tool = tool, !.project = p,
                                      !.readable = readable, !.todo = Opening(tool)]]
    /\ UNCHANGED <<cachedIds, planeWrites, callFaults>>

(* request: the key is resolved for this request and it is sent.           *)
Send(c) ==
    /\ calls[c].todo # <<>>
    /\ calls[c].leg = "ready"
    /\ calls' = [calls EXCEPT ![c].leg = "sent"]
    /\ UNCHANGED <<cachedIds, planeWrites, callFaults>>

(* The secret cannot be resolved, or resolves to nothing.                  *)
NoKey(c, kind) ==
    /\ calls[c].todo # <<>>
    /\ calls[c].leg = "ready"
    /\ callFaults < MaxCallFaults
    /\ kind \in {"unavailable", "unauthorized"}
    /\ calls' = [calls EXCEPT ![c] = Settle(@, kind)]
    /\ callFaults' = callFaults + 1
    /\ UNCHANGED <<cachedIds, planeWrites>>

(* Plane performs the request; a write changes Plane here.                 *)
Serve(c) ==
    /\ calls[c].leg = "sent"
    /\ calls' = [calls EXCEPT ![c].leg = "served"]
    /\ planeWrites' = IF Head(calls[c].todo) = "write" THEN planeWrites \cup {c} ELSE planeWrites
    /\ UNCHANGED <<cachedIds, callFaults>>

(* Plane answers the request with a status of 400 or more and performs     *)
(* nothing; classifyStatus makes the kind of it.                           *)
Refuse(c, kind) ==
    /\ calls[c].leg = "sent"
    /\ callFaults < MaxCallFaults
    /\ kind \in Kinds
    /\ calls' = [calls EXCEPT ![c] = Settle(@, kind)]
    /\ callFaults' = callFaults + 1
    /\ UNCHANGED <<cachedIds, planeWrites>>

(* The network fails or the request times out, before or after Plane       *)
(* performed it; or the body is no JSON, which no PlaneApiError reports.   *)
(* A request that has timed out may still be performed.                    *)
Lose(c, kind) ==
    /\ calls[c].leg \in {"sent", "served"}
    /\ callFaults < MaxCallFaults
    /\ kind = "unknown" => calls[c].leg = "served"
    /\ kind \in {"unavailable", "unknown"}
    /\ calls' = [calls EXCEPT ![c] = Settle(@, kind)]
    /\ callFaults' = callFaults + 1
    /\ planeWrites' \in IF calls[c].leg = "sent" /\ Head(calls[c].todo) = "write"
                        THEN {planeWrites, planeWrites \cup {c}}
                        ELSE {planeWrites}
    /\ UNCHANGED cachedIds

(* The reply arrives: the cache takes what a look-up returned, and the     *)
(* client goes on to the look-up the reply makes necessary, to its next    *)
(* request, or to its result.                                              *)
Arrive(c, reply) ==
    LET call    == calls[c]
        request == Head(call.todo)
        todo    == Needed(call, reply) \o Tail(call.todo)
    IN /\ call.leg = "served"
       /\ calls' = [calls EXCEPT ![c] = IF todo = <<>> THEN Settle(call, "ok")
                                        ELSE [call EXCEPT !.todo = todo, !.leg = "ready"]]
       /\ cachedIds' = CASE request = "project"  -> cachedIds \cup {call.project}
                         [] request = "projects" -> Projects
                         [] OTHER                -> cachedIds
       /\ UNCHANGED <<planeWrites, callFaults>>

(* withDeadline: the agent is told "unavailable" and the call goes on.     *)
DeadlinePasses(c) ==
    /\ calls[c].todo # <<>>
    /\ calls[c].answer = "none"
    /\ calls[c].tool # "test"
    /\ calls' = [calls EXCEPT ![c].answer = "unavailable"]
    /\ UNCHANGED <<cachedIds, planeWrites, callFaults>>

ClientNext ==
    \E c \in ToolCalls :
        \/ \E tool \in (Reading \cup Writing) \ {"search", "members", "test"} : InvalidInput(c, tool)
        \/ EmptySearch(c)
        \/ \E tool \in Reading \cup Writing, p \in Projects, readable \in BOOLEAN :
              StartCall(c, tool, p, readable)
        \/ Send(c)
        \/ \E kind \in Kinds : NoKey(c, kind) \/ Refuse(c, kind) \/ Lose(c, kind)
        \/ Serve(c)
        \/ \E reply \in Shapes : Arrive(c, reply)
        \/ DeadlinePasses(c)

ClientSpec == ClientInit /\ [][ClientNext]_clientVars

---------------------------------------------------------------------------
(* Type correctness of the client's state.                                 *)
ClientTypeOK ==
    /\ cachedIds \subseteq Projects
    /\ planeWrites \subseteq {c \in ToolCalls : calls[c].tool \in Writing}
    /\ callFaults \in 0..MaxCallFaults
    /\ \A c \in ToolCalls :
          /\ calls[c].answer \in Kinds \cup {"none", "ok"}
          /\ calls[c].leg \in Legs
          /\ calls[c].todo = <<>> => calls[c].leg = "ready"

(* What the answer of a writing tool says of Plane: "ok" is only said of a *)
(* write Plane has performed, and a refusal (of the key, of the request,   *)
(* of its rate, of its input) only of a call that has written nothing and  *)
(* will write nothing.  A create is the exception, see RefusedCreatesNothing. *)
(* Only "unavailable" and "unknown" leave the agent in doubt.              *)
Refusals == Kinds \ {"unavailable", "unknown"}

AnswersTrue ==
    \A c \in ToolCalls :
        LET call == calls[c] IN
        /\ call.tool \in Writing /\ call.answer = "ok" => c \in planeWrites
        /\ call.tool \in {"comment", "update"} /\ call.answer \in Refusals =>
              c \notin planeWrites /\ call.todo = <<>>

(* The agent may try again after a refusal ("retry on rate_limited",       *)
(* agent-tools.ts:126): a create that was refused created nothing.  Does   *)
(* not hold: the identifier of the new item is looked up after the POST,   *)
(* and a refusal of that look-up is reported as the refusal of the tool.   *)
RefusedCreatesNothing ==
    \A c \in ToolCalls :
        calls[c].tool = "create" /\ calls[c].answer \in Refusals => c \notin planeWrites
=============================================================================
