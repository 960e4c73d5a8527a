------------------------------- MODULE Response -------------------------------
(***************************************************************************)
(* The Response of the producer SDK as it is patched in                    *)
(* src/linux/script/patch/kinesis-video-producer/src/Response.cpp: one     *)
(* thread creates it and runs completeSync, others may call terminate.     *)
(* closeCurlHandles holds termination_mutex_, terminate does not take it.  *)
(*                                                                         *)
(* libcurl is external: a transfer succeeds with any status or fails, and  *)
(* a handle of NULL makes its functions return an error.                   *)
(***************************************************************************)
EXTENDS Integers

CONSTANTS
  Terminators,  \* threads that call terminate, once each
  Statuses,     \* HTTP statuses a server may answer with
  ServiceCalls  \* those that are a SERVICE_CALL_RESULT, 200 among them

ASSUME ResponseAssumption == 200 \in ServiceCalls /\ Statuses \subseteq Nat \ {0}

VARIABLES
  respAt,               \* where the thread of completeSync stands
  curl_, handle,        \* is the pointer set, what it points to
  request_headers_, terminated_, http_status_code_, service_call_result_,
  result,               \* what curl_easy_perform has returned
  body,                 \* who gets the body: response_, the request or stdout
  response_,            \* has response_ got it
  hurried,              \* the time limit was lowered
  term,                 \* where each terminate stands
  inTime,               \* terminated_ was set when the transfer ended
  overlap,              \* a terminate held the handle while it was freed
  respCrashed

respVars == <<respAt, curl_, handle, request_headers_, terminated_, http_status_code_,
              service_call_result_, result, body, response_, hurried, term, inTime, overlap,
              respCrashed>>

RespInit ==
  /\ respAt = "new" /\ curl_ = FALSE /\ handle = "none" /\ request_headers_ = FALSE
  /\ terminated_ = FALSE /\ http_status_code_ = 0 /\ service_call_result_ = "ok"
  /\ result = "none" /\ body = "stdout" /\ response_ = FALSE /\ hurried = FALSE
  /\ term = [t \in Terminators |-> "idle"] /\ inTime = FALSE /\ overlap = FALSE
  /\ respCrashed = FALSE

RespGoes(from, to) == ~respCrashed /\ respAt = from /\ respAt' = to

-----------------------------------------------------------------------------
\* create: only a POST that does not stream has response_ written; a POST that
\* streams calls the request back, and the others print.  When curl_easy_init
\* fails all the options are lost, and create returns the response all the same.
Create(verb, streaming, inits) ==
  /\ RespGoes("new", "ready")
  /\ curl_' = inits /\ handle' = IF inits THEN "live" ELSE "none"
  /\ request_headers_' = TRUE
  /\ body' = IF verb # "POST" THEN "stdout" ELSE IF streaming THEN "request" ELSE "response"
  /\ UNCHANGED <<terminated_, http_status_code_, service_call_result_, result, response_, hurried,
                 term, inTime, overlap, respCrashed>>

\* curl_easy_perform.  It ends by itself or because its time is up.
Performs(outcome) ==
  /\ RespGoes("ready", "returned")
  /\ ~curl_ => outcome = "unknown"
  /\ hurried \/ outcome # "stopped"
  /\ result' = outcome
  /\ response_' = (outcome = "ok" /\ body = "response")
  /\ inTime' = terminated_
  /\ UNCHANGED <<curl_, handle, request_headers_, terminated_, http_status_code_,
                 service_call_result_, body, hurried, term, overlap, respCrashed>>

\* A forced end counts as a success.
CompletesTerminated ==
  /\ RespGoes("returned", "close") /\ terminated_
  /\ http_status_code_' = 200 /\ service_call_result_' = "ok"
  /\ UNCHANGED <<curl_, handle, request_headers_, terminated_, result, body, response_, hurried,
                 term, inTime, overlap, respCrashed>>

ServiceCallResultFromHttpStatus(status) ==
  IF status = 200 THEN "ok" ELSE IF status \in ServiceCalls THEN "status" ELSE "unknown"

ServiceCallResultFromCurlStatus(code) ==
  CASE code = "protocol" -> "invalid" [] code \in {"timedout", "stopped"} -> "timeout"
    [] code = "certificate" -> "unauthorized" [] OTHER -> "unknown"

\* Faulty: a failed transfer leaves the result that the constructor has set.
CompletesFailedAsOK ==
  /\ RespGoes("returned", "close") /\ ~terminated_ /\ result # "ok"
  /\ service_call_result_' = "ok"
  /\ respCrashed' \in {FALSE, ~curl_}
  /\ UNCHANGED <<curl_, handle, request_headers_, terminated_, http_status_code_, result, body,
                 response_, hurried, term, inTime, overlap>>

\* The url is printed, which curl_easy_getinfo has not set if there is no handle.
CompletesFailed ==
  /\ RespGoes("returned", "close") /\ ~terminated_ /\ result # "ok"
  /\ service_call_result_' = ServiceCallResultFromCurlStatus(result)
  /\ respCrashed' \in {FALSE, ~curl_}
  /\ UNCHANGED <<curl_, handle, request_headers_, terminated_, http_status_code_, result, body,
                 response_, hurried, term, inTime, overlap>>

Completes(status) ==
  /\ RespGoes("returned", "close") /\ ~terminated_ /\ result = "ok"
  /\ http_status_code_' = status
  /\ service_call_result_' = ServiceCallResultFromHttpStatus(status)
  /\ UNCHANGED <<curl_, handle, request_headers_, terminated_, result, body, response_, hurried,
                 term, inTime, overlap, respCrashed>>

\* curl_easy_cleanup, and then curl_ is set to NULL.
CleansUp ==
  /\ RespGoes("close", "forget")
  /\ request_headers_' = FALSE
  /\ handle' = IF curl_ THEN "freed" ELSE handle
  /\ overlap' = \E t \in Terminators : term[t] = "limit"
  /\ UNCHANGED <<curl_, terminated_, http_status_code_, service_call_result_, result, body,
                 response_, hurried, term, inTime, respCrashed>>

ForgetsHandle ==
  /\ RespGoes("forget", "done")
  /\ curl_' = FALSE
  /\ UNCHANGED <<handle, request_headers_, terminated_, http_status_code_, service_call_result_,
                 result, body, response_, hurried, term, inTime, overlap, respCrashed>>

\* closeCurlHandles, which the destructor calls once more.
closeCurlHandles == CleansUp \/ ForgetsHandle

-----------------------------------------------------------------------------
\* terminate sets terminated_, then loads curl_, then lowers the time limit.
Terminates(t) ==
  /\ ~respCrashed /\ respAt # "new" /\ term[t] = "idle"
  /\ terminated_' = TRUE /\ term' = [term EXCEPT ![t] = "load"]
  /\ UNCHANGED <<respAt, curl_, handle, request_headers_, http_status_code_,
                 service_call_result_, result, body, response_, hurried, inTime, overlap, respCrashed>>

LoadsHandle(t) ==
  /\ ~respCrashed /\ term[t] = "load"
  /\ term' = [term EXCEPT ![t] = IF curl_ THEN "limit" ELSE "over"]
  /\ overlap' = (overlap \/ (curl_ /\ handle = "freed"))
  /\ UNCHANGED <<respAt, curl_, handle, request_headers_, terminated_, http_status_code_,
                 service_call_result_, result, body, response_, hurried, inTime, respCrashed>>

LowersLimit(t) ==
  /\ ~respCrashed /\ term[t] = "limit"
  /\ term' = [term EXCEPT ![t] = "over"]
  /\ hurried' = TRUE /\ respCrashed' = (handle = "freed")
  /\ UNCHANGED <<respAt, curl_, handle, request_headers_, terminated_, http_status_code_,
                 service_call_result_, result, body, response_, inTime, overlap>>

\* All is over, or after a use of freed memory nothing is known.
RespRests ==
  /\ respCrashed \/ (respAt = "done" /\ \A t \in Terminators : term[t] \in {"idle", "over"})
  /\ UNCHANGED respVars

Outcomes == {"ok", "stopped", "timedout", "protocol", "certificate", "unknown"}

RespNext ==
  \/ \E verb \in {"GET", "PUT", "POST"}, streaming, inits \in BOOLEAN : Create(verb, streaming, inits)
  \/ \E outcome \in Outcomes : Performs(outcome)
  \/ CompletesTerminated \/ CompletesFailed \/ (\E status \in Statuses : Completes(status))
  \/ closeCurlHandles
  \/ \E t \in Terminators : Terminates(t) \/ LoadsHandle(t) \/ LowersLimit(t)
  \/ RespRests

RespSpec == RespInit /\ [][RespNext]_respVars

-----------------------------------------------------------------------------
RespTypeOK ==
  /\ respAt \in {"new", "ready", "returned", "close", "forget", "done"}
  /\ handle \in {"none", "live", "freed"} /\ result \in Outcomes \cup {"none"}
  /\ http_status_code_ \in Statuses \cup {0, 200}
  /\ service_call_result_ \in {"ok", "status", "unknown", "invalid", "timeout", "unauthorized"}
  /\ \A t \in Terminators : term[t] \in {"idle", "load", "limit", "over"}

(***************************************************************************)
(* The curl handle is freed once and used freed only by a terminate that   *)
(* overlaps closeCurlHandles; the only other way to crash is the missing   *)
(* handle whose failure is reported.  A request that was terminated before *)
(* its transfer ended succeeds; one that is reported to be well was        *)
(* answered so or terminated, and only an end that nobody asked for leaves *)
(* it without a status.                                                    *)
(***************************************************************************)
HandleAlive ==
  /\ respCrashed => overlap \/ handle = "none"
  /\ respAt = "done" => ~curl_ /\ handle # "live" /\ ~request_headers_
  /\ respAt \in {"close", "forget", "done"} =>
       /\ inTime => service_call_result_ = "ok"
       /\ service_call_result_ = "ok" <=> http_status_code_ = 200
       /\ service_call_result_ = "ok" => result = "ok" \/ terminated_
       /\ result = "stopped" => service_call_result_ = "ok"

=============================================================================
