----------------------------- MODULE ApiGateway -----------------------------
(***************************************************************************)
(* One call of the API client on the desktop, from the method of the       *)
(* client to its result: the renderer's transport turns the request into   *)
(* an operation and its input (DesktopRoutes), the main process turns the  *)
(* operation into a request of its own (DesktopOperations) and sends it    *)
(* with the device's access token, once more after a refresh if the token  *)
(* had expired and the operation is a read.                                *)
(*                                                                         *)
(* The value of a field is the field's own name, so that a value that      *)
(* ends up in another field shows.  What a value looks like (lengths,      *)
(* enumerations, dates) is left out: callers give valid ones.              *)
(***************************************************************************)
EXTENDS DesktopOperations, Naturals, FiniteSets

VARIABLES stage,     \* how far the call has come
          call,      \* the method of the client
          fields,    \* the fields the caller gave, with their values
          job,       \* the operation and input the transport made of it
          sent,      \* the requests sent for it, oldest first
          applied,   \* whether the server carried out the call
          outcome    \* what the caller is told
gatewayVars == <<stage, call, fields, job, sent, applied, outcome>>

NoJob == [op |-> "none", input |-> << >>]

GatewayInit ==
  /\ stage = "idle" /\ call = "none" /\ fields = << >> /\ job = NoJob
  /\ sent = << >> /\ applied = FALSE /\ outcome = "none"

Done(code) == stage' = "done" /\ outcome' = code

\* The caller picks a method and which of the optional fields to give.
ValueOf(field) == IF field = "github_withdrawal_status" THEN "pending" ELSE field
Given(c, optional) == [f \in Calls[c].must \cup optional |-> ValueOf(f)]
Ask ==
  /\ stage = "idle"
  /\ \E c \in DOMAIN Calls :
       \E optional \in {{}, Calls[c].may} \cup {{f} : f \in Calls[c].may} :
         /\ call' = c /\ fields' = Given(c, optional)
         /\ stage' = "ask"
  /\ UNCHANGED <<job, sent, applied, outcome>>

-----------------------------------------------------------------------------
(* The renderer's transport. *)

\* The fields that have another name in the operations than on the wire.
Renamed == [
  access |-> "accessToken", access_key_id |-> "accessKeyId",
  access_key_secret |-> "accessKeySecret", access_password |-> "accessPassword",
  access_password_action |-> "accessPasswordAction",
  assignee_username |-> "assigneeUsername", body_format |-> "bodyFormat",
  clear_default |-> "clearDefault", current_password |-> "currentPassword",
  cycle_id |-> "cycleId", data_scope_type |-> "dataScopeType",
  display_name |-> "displayName", due_date |-> "dueDate", end_date |-> "endDate",
  expires_at |-> "expiresAt", is_default |-> "isDefault", item_keys |-> "itemKeys",
  item_type |-> "itemType", manifest_sha256 |-> "manifestSha256",
  member_role |-> "memberRole", new_password |-> "newPassword",
  new_password_confirm |-> "newPasswordConfirm", owner_username |-> "ownerUsername",
  parent_comment_id |-> "parentCommentId", parent_item_key |-> "parentItemKey",
  per_page |-> "perPage", permission_keys |-> "permissionKeys",
  project_key |-> "projectKey", project_keys |-> "projectKeys",
  project_scope |-> "projectScope", related_cycle_id |-> "relatedCycleId",
  related_work_item_key |-> "relatedWorkItemKey",
  retention_count |-> "retentionCount", role_code |-> "roleCode",
  role_name |-> "roleName", signing_key_id |-> "signingKeyId",
  source_comment_id |-> "sourceCommentId", source_commit |-> "sourceCommit",
  source_tag |-> "sourceTag", start_date |-> "startDate", target_id |-> "targetId",
  target_type |-> "targetType", version_name |-> "versionName"]

\* A mistake TablesAgree refuses: one name is not translated.
DomainForgotten(field) ==
  IF field \in DOMAIN Renamed \ {"related_cycle_id"} THEN Renamed[field] ELSE field
\* renameBody, parseQuery, and the payloads of comments and cycles.
Domain(field) == IF field \in DOMAIN Renamed THEN Renamed[field] ELSE field

\* A number matches (\d+), anything matches ([^/]+), the rest is literal.
SegmentMatches(pattern, segment) ==
  CASE pattern \in Numeric -> segment \in Numeric
    [] pattern \in Textual -> TRUE
    [] OTHER -> segment = pattern
Matches(route, request) ==
  /\ route.method = request.method
  /\ Len(route.path) = Len(request.path)
  /\ \A i \in DOMAIN route.path : SegmentMatches(route.path[i], request.path[i])
  /\ route.context = request.context

\* A read never looks at the writes' table, nor a write at the reads'.
Table(request) == IF request.method = "GET" THEN ReadTable ELSE WriteTable
Candidates(request) == {i \in DOMAIN Table(request) : Matches(Table(request)[i], request)}
FirstRoute(request) ==
  Table(request)[CHOOSE i \in Candidates(request) :
                   \A j \in Candidates(request) : i <= j]

\* The arguments read off the path, and the fields under their domain names.
Arguments(route, request) ==
  LET places == {i \in DOMAIN route.path : route.path[i] \in Numeric \cup Textual}
  IN  [p \in {route.path[i] : i \in places} |->
         request.path[CHOOSE i \in places : route.path[i] = p]]
Translated(route, given) ==
  LET kept == {f \in DOMAIN given : route.strict} \ route.drops
  IN  [d \in {Domain(f) : f \in kept} |-> given[CHOOSE f \in kept : Domain(f) = d]]

\* resolveReadOperation and resolveMutationOperation.
Resolve ==
  /\ stage = "ask"
  /\ LET request == Calls[call]
         route == FirstRoute(request)
     IN  \/ /\ Candidates(request) = {}
            /\ Done("operation_not_allowed") /\ UNCHANGED job
         \/ /\ Candidates(request) # {}
            /\ route.strict /\ ~(DOMAIN fields \subseteq route.keys)
            /\ Done("invalid_request") /\ UNCHANGED job
         \/ /\ Candidates(request) # {}
            /\ route.strict => DOMAIN fields \subseteq route.keys
            /\ job' = [op |-> route.op,
                       input |-> Arguments(route, request) @@ Translated(route, fields)]
            /\ stage' = "resolved" /\ UNCHANGED outcome
  /\ UNCHANGED <<call, fields, sent, applied>>

-----------------------------------------------------------------------------
(* The main process. *)

Operation == CHOOSE o \in Operations : o.name = job.op
Parameters(o) == {o.path[i] : i \in DOMAIN o.path} \cap (Numeric \cup Textual)

\* exactKeys, and the parsers that refuse an undefined value.
Accepts(o, input) ==
  /\ DOMAIN input \subseteq Parameters(o) \cup o.needs \cup o.takes
  /\ Parameters(o) \cup o.needs \subseteq DOMAIN input
  /\ o.some => o.takes \cap DOMAIN input # {}

\* The name a field of the input has on the wire.
Wire(d) == IF \E f \in DOMAIN Renamed : Renamed[f] = d
           THEN CHOOSE f \in DOMAIN Renamed : Renamed[f] = d ELSE d

\* The request an operation makes of its input (descriptor).
Request(o, input) ==
  LET given == (o.needs \cup o.takes) \cap DOMAIN input
  IN  [method |-> o.method,
       path |-> [i \in DOMAIN o.path |->
                   IF o.path[i] \in Parameters(o) THEN input[o.path[i]] ELSE o.path[i]],
       fields |-> [f \in {Wire(d) : d \in given} |-> input[Domain(f)]] @@ o.adds,
       context |-> o.context]

\* registry.resolve, before anything is sent.
Dispatch ==
  /\ stage = "resolved"
  /\ \/ /\ ~Accepts(Operation, job.input)
        /\ Done("invalid_operation") /\ UNCHANGED sent
     \/ /\ Accepts(Operation, job.input)
        /\ sent' = <<Request(Operation, job.input)>>
        /\ stage' = "sent" /\ UNCHANGED outcome
  /\ UNCHANGED <<call, fields, job, applied>>

\* What may come back: an answer, no answer, or one that cannot be used.
Lost == {"network_error", "request_timeout"}
Unreadable == {"response_read_failed", "invalid_json", "invalid_response"}
Foreign == {"response_too_large", "invalid_content_type", "invalid_error_response",
            "response_url_mismatch", "redirect_not_allowed"}

\* The codes that leave a write's result open (executeOnce).
Uncertain == Lost \cup Unreadable

\* The token was good: the server answers, or something between hides it.
Deliver ==
  /\ stage = "sent"
  /\ \E answer \in {"ok", "server_error"} \cup Lost \cup Unreadable \cup Foreign :
       /\ applied' \in {a \in BOOLEAN : /\ answer = "ok" => a
                                        /\ answer = "server_error" => ~a}
       /\ Done(IF answer \in Uncertain /\ ~Operation.idempotent
               THEN "mutation_result_uncertain" ELSE answer)
  /\ UNCHANGED <<call, fields, job, sent>>

\* The token had expired, so the server did nothing.  A read that has been
\* sent once waits for a refresh.
Expired ==
  /\ stage = "sent"
  /\ \/ /\ Operation.idempotent /\ Len(sent) = 1
        /\ stage' = "expired" /\ UNCHANGED outcome
     \/ /\ ~Operation.idempotent \/ Len(sent) > 1
        /\ Done("device_access_expired")
  /\ UNCHANGED <<call, fields, job, sent, applied>>

\* refreshAccess succeeds and the read is sent again, or the lease is stale.
Refresh ==
  /\ stage = "expired"
  /\ \/ /\ sent' = Append(sent, Request(Operation, job.input))
        /\ stage' = "sent" /\ UNCHANGED outcome
     \/ Done("stale_network_epoch") /\ UNCHANGED sent
  /\ UNCHANGED <<call, fields, job, applied>>

GatewayNext == Ask \/ Resolve \/ Dispatch \/ Deliver \/ Expired \/ Refresh

GatewaySpec == GatewayInit /\ [][GatewayNext]_gatewayVars

-----------------------------------------------------------------------------
(* Properties. *)

\* What the desktop sends is what the client asked for: the method, the
\* path with its arguments, the editor context, and every field with its own
\* value; and a write is sent at most once, a read at most twice, so that
\* nothing is applied twice (execute in rest-transport.mjs, and the two
\* tables that translate a request there and back).
SentAsAsked ==
  /\ \A i \in DOMAIN sent :
       /\ sent[i].method = Calls[call].method
       /\ sent[i].path = Calls[call].path
       /\ sent[i].context = Calls[call].context
       /\ \A f \in DOMAIN fields :
            f \in DOMAIN sent[i].fields /\ sent[i].fields[f] = fields[f]
  /\ Len(sent) <= IF call # "none" /\ Calls[call].method = "GET" THEN 2 ELSE 1

\* The two tables agree: the main process has the operation of every request
\* the renderer translates and accepts its input, unless an update names no
\* field to change.
TablesAgree ==
  /\ job # NoJob => \E o \in Operations : o.name = job.op
  /\ outcome = "invalid_operation" => fields = << >>

\* A write that the server carried out is never reported as a definite
\* failure: the caller is told that it succeeded or that the result is
\* uncertain (the codes executeOnce turns into mutation_result_uncertain).
UncertainTold ==
  applied /\ stage = "done" /\ ~Operation.idempotent
    => outcome \in {"ok", "mutation_result_uncertain"}

\* Every call of the client that the pages make reaches the server on the
\* desktop too, whatever optional fields it gives.
ServedOnDesktop == outcome \notin {"operation_not_allowed", "invalid_request"}
=============================================================================
