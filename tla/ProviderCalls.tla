---------------------------- MODULE ProviderCalls ----------------------------
(***************************************************************************)
(* The clients of the breakers: how each of them turns the end of a call   *)
(* into a report. llm.py gates a stream with `acquire` and reports by hand; *)
(* embeddings.py and reranker.py wrap the HTTP request in `call`, which    *)
(* reports any exception as a failure.                                     *)
(***************************************************************************)
EXTENDS CircuitBreaker

\* The ends of a provider call that some client tells apart.
ReplyKinds ==
  {"ok", "rate_limited", "server_error", "client_error", "search_rejected",
   "stream_failed", "abandoned"}

\* stream_chat and stream_responses: a 429 or another 4xx is the provider
\* working; a rejected web search (400) and a `response.failed` event raise
\* without reporting; an abandoned stream never gets to report.
GenerationReport ==
  [r \in ReplyKinds |->
     IF r \in {"ok", "rate_limited", "client_error"} THEN "success"
     ELSE IF r = "server_error" THEN "failure" ELSE "none"]

\* CircuitBreaker.call around post_json: after its retries post_json raises for
\* every status from 400 up, so a 429 or a 400 is an exception like a 500.
\* Cancellation is not an `Exception` and reports nothing.
CallReport ==
  [r \in ReplyKinds |->
     IF r = "ok" THEN "success" ELSE IF r = "abandoned" THEN "none" ELSE "failure"]
=============================================================================
