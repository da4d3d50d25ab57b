----------------------------- MODULE ErrorJudge -----------------------------
(***************************************************************************)
(* The error judge: what the gateway decides after one upstream attempt.   *)
(* health.JudgeExecution turns the evidence of an attempt into a retry      *)
(* directive and one runtime effect; user-configured error rules may        *)
(* replace the built-in decision; gateway.judgeUpstreamResult narrows the   *)
(* effect for searches and live calls.                                      *)
(*                                                                         *)
(* Everything is an operator, so AttemptLoop uses the same decisions.       *)
(* Wording is abstracted: the type, code and summary of an error are one    *)
(* code, the deadline of a cooldown is the place it was taken from.         *)
(***************************************************************************)
EXTENDS Integers, Sequences

CONSTANTS Attempts,     \* the attempts judged: records [dispatch, status, committed, down, ev]
          Contexts      \* the contexts: records [op, read, refreshable, rules]

VARIABLES attempt, context, verdict

vars == <<attempt, context, verdict>>

-----------------------------------------------------------------------------
(* Operations and their contracts.                                          *)

StrictOperations == {"transparent_request", "resource_create", "resource_delete",
    "resource_cancel", "images_generate", "images_edit", "embeddings_create",
    "rerank", "decisions_create", "live_call", "audio_speech", "mistral_ocr",
    "mistral_fim", "mistral_audio_transcription", "mistral_audio_speech",
    "mistral_moderation", "mistral_chat_moderation", "mistral_classification",
    "mistral_realtime_transcription"}

UsesModelCooldown(op) == op \in {"chat_completion", "responses_create",
    "responses_compact"} \cup (StrictOperations \ {"transparent_request",
    "resource_create", "resource_delete", "resource_cancel", "live_call"})

ResourceOperations == {"responses_retrieve", "responses_delete", "responses_cancel",
                       "responses_input_items", "responses_passthrough"}

requestMayReplayAfterResponse(c) ==
    c.read \/ c.op \in {"chat_completion", "responses_create", "responses_compact",
                        "responses_retrieve", "responses_input_items",
                        "responses_input_tokens", "count_tokens", "list_models"}

-----------------------------------------------------------------------------
(* Evidence.  kind "none" is a nil evidence; a code stands for every type,  *)
(* code and summary that the judge treats alike.                            *)

PreparationCodes == {"credential_decrypt_failed", "credential_normalization_failed",
                     "credential_proxy_prepare_failed", "group_proxy_prepare_failed"}
RateCodes == {"rate_limit_exceeded"}
ModelCodes == {"model_not_found"}
KeyCodes == {"invalid_api_key"}
RejectionCodes == {"context_length_exceeded"}
BrokenStreamCodes == {"upstream_protocol_error", "upstream_response_incomplete"}

SuccessStatus(s) == s >= 200 /\ s < 300

ResponseStarted(a) == a.status # 0 \/ (a.ev.kind # "none" /\ a.ev.status # 0)

StatusOf(a) == IF a.status = 0 THEN a.ev.status ELSE a.status

originForEvidence(ev) ==
    IF ev.origin # "" THEN ev.origin
    ELSE CASE ev.kind \in {"transport", "timeout", "http", "provider"} -> "upstream"
           [] ev.kind = "canceled" -> "downstream"
           [] ev.kind \in {"conversion_unsupported", "internal"} -> "internal"
           [] ev.kind = "invalid_request" -> "client"
           [] OTHER -> ""

scopeOrDefault(scope, fallback) == IF scope # "" THEN scope ELSE fallback

decision(category, origin, scope, retry, effect, rule) ==
    [category |-> category, origin |-> origin, scope |-> scope, retry |-> retry,
     effect |-> effect, until |-> "", rule |-> rule]

\* The zero value before a verdict.
NoVerdict == decision("", "", "", "", "", "")

retryUnlessExplicitlyUnknown(ev) ==
    IF ev.replay = "unknown" THEN "none" ELSE "next_candidate"

(* An error response was received, as opposed to a failure that leaves the  *)
(* outcome of the request unknown.                                          *)
retryableUpstreamResponse(a) ==
    /\ originForEvidence(a.ev) = "upstream"
    /\ a.ev.replay # "unknown"
    /\ \/ /\ a.ev.kind = "http"
          /\ SuccessStatus(StatusOf(a)) \/ StatusOf(a) \in 400..599
       \/ /\ a.ev.kind = "provider"
          /\ a.ev.code \notin BrokenStreamCodes
          /\ ResponseStarted(a)

-----------------------------------------------------------------------------
(* Classification of the evidence.                                          *)

HintCategory(hint) ==
    CASE hint = "invalid_credential" -> "invalid_key"
      [] hint \in {"refresh_required", "reauthorization_required"} -> "authentication_required"
      [] hint = "rate_limited" -> "rate_limited"
      [] hint = "request_rejected" -> "client_error"
      [] hint \in {"candidate_unavailable", "model_unavailable"} -> "model_unavailable"
      [] hint = "host_error" -> "host_error"
      [] OTHER -> ""

classifyExecutionEvidence(a) ==
    CASE StatusOf(a) = 401 /\ a.ev.replay = "unknown" /\ a.ev.hint = "" -> "ambiguous"
      [] HintCategory(a.ev.hint) # "" -> HintCategory(a.ev.hint)
      [] OTHER ->
           IF a.ev.code \in RejectionCodes THEN "client_error"
           ELSE IF StatusOf(a) = 429 \/ a.ev.code \in RateCodes THEN "rate_limited"
           ELSE IF StatusOf(a) = 401 THEN "invalid_key"
           ELSE IF a.ev.code \in ModelCodes THEN "model_unavailable"
           ELSE IF a.ev.code \in KeyCodes THEN "invalid_key"
           ELSE IF StatusOf(a) \in 500..599 THEN "host_error"
           ELSE IF a.ev.kind = "invalid_request" THEN "client_error"
           ELSE "ambiguous"

-----------------------------------------------------------------------------
(* The built-in decision for a category.                                    *)

rateLimitDecision(a, c) ==
    LET scope == a.ev.scope
        retry == retryUnlessExplicitlyUnknown(a.ev)
        origin == originForEvidence(a.ev)
        modelScoped == UsesModelCooldown(c.op) /\ scope \in {"", "model"}
        until == IF a.ev.wait # "" THEN a.ev.wait ELSE "default"
    IN  IF scope = "" /\ ~UsesModelCooldown(c.op)
        THEN decision("rate_limited", origin, "request", retry, "none", "rate_limit.operation_no_cooldown")
        ELSE IF scope = "request" \/ (scope = "model" /\ ~modelScoped)
        THEN decision("rate_limited", origin, scope, "none", "none", "rate_limit.scoped")
        ELSE IF modelScoped
        THEN [decision("rate_limited", origin, "model", retry, "cooldown_model", "rate_limit.model")
                EXCEPT !.until = until]
        ELSE [decision("rate_limited", origin, scope, retry, "cooldown_credential", "rate_limit.credential")
                EXCEPT !.until = until]

authenticationDecision(a, c) ==
    LET to(retry, rule) == decision("authentication_required", "upstream", "credential", retry, "none", rule)
    IN  IF a.dispatch = "maybe_sent" /\ a.ev.replay # "rejected" THEN to("none", "auth.replay_unsafe")
        ELSE IF a.ev.hint # "refresh_required" THEN to("next_candidate", "auth.reauthorization_required")
        ELSE IF c.refreshable /\ a.ev.replay = "rejected" THEN to("refresh_credential", "auth.refresh_required")
        ELSE to("next_candidate", "auth.refresh_unavailable")

\* The provider refused for lack of capacity before processing.
TransientCapacity(a) ==
    /\ a.dispatch = "maybe_sent"
    /\ a.ev.replay = "rejected"
    /\ originForEvidence(a.ev) = "upstream"
    /\ a.ev.kind \in {"http", "provider"}
    /\ a.ev.code \in {"server_is_overloaded", "rate_limit_exceeded"}

HostErrorRetry(a, c) ==
    IF a.ev.replay = "rejected" \/ (retryableUpstreamResponse(a) /\ requestMayReplayAfterResponse(c))
    THEN "next_candidate" ELSE "none"

AmbiguousRetry(a, c) ==
    IF /\ retryableUpstreamResponse(a)
       /\ requestMayReplayAfterResponse(c) \/ a.ev.replay = "rejected"
    THEN "next_candidate" ELSE "none"

decisionForExecutionCategory(category, a, c) ==
    LET origin == originForEvidence(a.ev)
        scope == a.ev.scope
    IN  IF TransientCapacity(a)
        THEN decision(IF a.ev.code = "rate_limit_exceeded" THEN "rate_limited" ELSE "host_error",
                      "upstream", scope, "next_candidate", "none", "candidate.transient_capacity")
        ELSE IF category = "model_unavailable" /\ c.op \in ResourceOperations
        THEN decision(category, origin, scope, "none", "none", "model.resource_unavailable")
        ELSE IF a.ev.hint = "candidate_unavailable"
        THEN decision(category, origin, scope, retryUnlessExplicitlyUnknown(a.ev), "none", "candidate.unavailable")
        ELSE CASE category = "rate_limited" -> rateLimitDecision(a, c)
               [] category = "model_unavailable" ->
                    decision(category, origin, scopeOrDefault(scope, "model"),
                             retryUnlessExplicitlyUnknown(a.ev), "none", "model.unavailable")
               [] category = "invalid_key" ->
                    decision(category, origin, scopeOrDefault(scope, "credential"),
                             retryUnlessExplicitlyUnknown(a.ev), "record_credential_failure",
                             "auth.invalid_credential")
               [] category = "authentication_required" -> authenticationDecision(a, c)
               [] category = "host_error" ->
                    decision(category, origin, scopeOrDefault(scope, "group"),
                             HostErrorRetry(a, c), "skip_group", "upstream.host_error")
               [] category = "client_error" ->
                    decision(category, origin, scopeOrDefault(scope, "request"), "none", "none", "fallback.http_client_error")
               [] OTHER -> decision(category, origin, scope, AmbiguousRetry(a, c), "none", "fallback.ambiguous")

-----------------------------------------------------------------------------
(* User-configured error rules: the first rule whose status codes and       *)
(* keywords match replaces the retry and the effect of the decision.        *)

RuleMatches(rule, a) ==
    /\ rule.statuses = {} \/ StatusOf(a) \in rule.statuses
    /\ rule.keywords = {} \/ a.ev.code \in rule.keywords

Ruled(base, a, c) ==
    /\ base.origin = "upstream"
    /\ base.category \notin {"client_error", "authentication_required"}
    /\ a.ev.hint # "refresh_unavailable"
    /\ ResponseStarted(a)
    /\ a.ev.kind \in {"http", "provider"}
    /\ base.rule \notin {"model.resource_unavailable", "rate_limit.scoped"}
    /\ a.ev.code \notin BrokenStreamCodes
    /\ \E i \in 1..Len(c.rules) : RuleMatches(c.rules[i], a)

FirstRule(a, c) ==
    c.rules[CHOOSE i \in 1..Len(c.rules) :
                /\ RuleMatches(c.rules[i], a)
                /\ \A j \in 1..(i - 1) : ~RuleMatches(c.rules[j], a)]

RuleRetry(rule, a, c) ==
    IF /\ rule.retry = "next_candidate"
       /\ retryableUpstreamResponse(a)
       /\ requestMayReplayAfterResponse(c) \/ a.ev.replay = "rejected"
    THEN "next_candidate" ELSE "none"

RuleEffect(rule, c) ==
    IF rule.effect = "cooldown_model" /\ ~UsesModelCooldown(c.op) THEN "none" ELSE rule.effect

RuleScope(rule, base, c) ==
    CASE RuleEffect(rule, c) \in {"cooldown_credential", "record_credential_failure"} -> "credential"
      [] RuleEffect(rule, c) = "cooldown_model" -> "model"
      [] RuleEffect(rule, c) = "skip_group" -> "group"
      [] OTHER -> base.scope

applyRules(base, a, c) ==
    IF ~Ruled(base, a, c) THEN base
    ELSE LET rule == FirstRule(a, c)
         IN  [category |-> base.category, origin |-> base.origin,
              scope |-> RuleScope(rule, base, c), retry |-> RuleRetry(rule, a, c),
              effect |-> RuleEffect(rule, c),
              until |-> IF RuleEffect(rule, c) \in {"cooldown_credential", "cooldown_model"} THEN "rule" ELSE "",
              rule |-> "custom"]

-----------------------------------------------------------------------------
(* Safety constraints on a decision.                                        *)

\* A strict operation that may have been processed is not dispatched again.
constrainOperationReplay(d, a, c) ==
    IF /\ d.retry # "none"
       /\ a.dispatch = "maybe_sent"
       /\ c.op \in StrictOperations
       /\ a.ev.replay # "rejected"
    THEN [d EXCEPT !.retry = "none", !.rule = "safety.operation_replay_unsafe"]
    ELSE d

trustedCommittedCredentialEffect(d, ev) ==
    /\ d.scope = "credential"
    /\ \/ ev.scope = "credential"
       \/ d.effect = "record_credential_failure" /\ ev.hint = "invalid_credential"

CommittedEffectStands(d, a) ==
    \/ /\ d.effect = "cooldown_model"
       /\ a.ev.hint = "rate_limited"
       /\ a.ev.origin \notin {"internal", "downstream"}
    \/ /\ d.effect \in {"cooldown_credential", "record_credential_failure"}
       /\ trustedCommittedCredentialEffect(d, a.ev)

\* Once bytes were sent to the client nothing is retried, and only an effect
\* the provider explicitly tied to the credential or the model stays.
constrainCommittedDecision(d, a) ==
    IF ~a.committed THEN d
    ELSE IF CommittedEffectStands(d, a) THEN [d EXCEPT !.retry = "none"]
    ELSE [d EXCEPT !.retry = "none", !.effect = "none", !.until = ""]

-----------------------------------------------------------------------------
(* The whole judgement.                                                     *)

\* A canceled request still cools the model its answer was rate limited for.
CanceledModelCooldown(a, c) ==
    /\ a.dispatch = "maybe_sent"
    /\ UsesModelCooldown(c.op)
    /\ a.ev.kind \in {"http", "provider"}
    /\ a.ev.hint = "rate_limited"
    /\ a.ev.scope \in {"", "model"}
    /\ a.ev.origin \in {"", "upstream"}
    /\ decisionForExecutionCategory("rate_limited", a, c).effect = "cooldown_model"

Canceled(a, c, category, rule) ==
    IF CanceledModelCooldown(a, c)
    THEN [rateLimitDecision(a, c) EXCEPT !.retry = "none"]
    ELSE decision(category, "downstream", "request", "none", "none", rule)

candidatePreparationFailed(a) ==
    /\ a.ev.origin = "internal"
    /\ a.ev.code \in PreparationCodes
    /\ a.ev.scope = IF a.ev.code = "group_proxy_prepare_failed" THEN "group" ELSE "credential"

refreshTemporarilyUnavailableDecision(a) ==
    [decision(IF a.ev.status = 429 THEN "rate_limited" ELSE "host_error", "upstream", "credential",
              "next_candidate", "cooldown_credential", "auth.refresh_temporarily_unavailable")
       EXCEPT !.until = IF a.ev.wait = "retry_after" THEN "retry_after" ELSE "default"]

\* The upgrade of a websocket was refused by an HTTP answer: nothing was sent.
RejectedHandshake(a) == [a EXCEPT !.ev.replay = "rejected"]

NotSent(a, c) ==
    IF candidatePreparationFailed(a)
    THEN decision("ambiguous", "internal", a.ev.scope, "next_candidate",
                  IF a.ev.code = "group_proxy_prepare_failed" THEN "skip_group" ELSE "none",
                  "candidate.preparation")
    ELSE IF a.ev.hint = "refresh_required" THEN authenticationDecision(a, c)
    ELSE IF a.ev.hint = "refresh_unavailable" THEN refreshTemporarilyUnavailableDecision(a)
    ELSE IF a.ev.hint = "reauthorization_required"
    THEN decision("authentication_required", "upstream", "credential", "next_candidate", "none",
                  "auth.reauthorization_required")
    ELSE   CASE a.ev.kind = "http" /\ originForEvidence(a.ev) = "upstream" /\ a.ev.status \in 400..599 ->
                  LET h == RejectedHandshake(a)
                      base == decisionForExecutionCategory(classifyExecutionEvidence(h), h, c)
                  IN  constrainCommittedDecision(applyRules(base, h, c), h)
             [] a.ev.kind \in {"transport", "timeout"} ->
                  decision("host_error", "upstream", "group", "next_candidate", "skip_group", "transport.not_sent")
             [] a.ev.kind = "conversion_unsupported" ->
                  decision("conversion_unsupported", "internal", "group", "next_candidate", "skip_group",
                           "conversion.not_sent")
             [] a.ev.kind = "invalid_request" ->
                  decision("client_error", originForEvidence(a.ev), scopeOrDefault(a.ev.scope, "request"),
                           "none", "none", "request.invalid_before_dispatch")
             [] OTHER -> decision("ambiguous", originForEvidence(a.ev), a.ev.scope, "none", "none", "fallback.not_sent")

\* Mutant: a transport failure without an answer is treated as an error response.
SentUnguarded(a, c) ==
    LET base == decisionForExecutionCategory("host_error", a, c)
    IN  constrainCommittedDecision(constrainOperationReplay(
            [applyRules(base, a, c) EXCEPT !.retry = "next_candidate"], a, c), a)

Sent(a, c) ==
    IF ~ResponseStarted(a) /\ a.ev.kind \in {"transport", "timeout"}
    THEN decision("ambiguous", "upstream", a.ev.scope, "none", "none", "transport.outcome_unknown")
    ELSE IF a.status \in 100..199
    THEN decision("ambiguous", "upstream", "request", "none", "none", "safety.final_informational_response")
    ELSE LET base == decisionForExecutionCategory(classifyExecutionEvidence(a), a, c)
         IN  constrainCommittedDecision(constrainOperationReplay(applyRules(base, a, c), a, c), a)

JudgeExecution(a, c) ==
    IF a.down = "canceled" THEN Canceled(a, c, "downstream_cancel", "safety.downstream_cancel")
    ELSE IF a.down = "failed" THEN Canceled(a, c, "ambiguous", "safety.downstream_write_failed")
    ELSE IF a.ev.kind = "none"
    THEN IF SuccessStatus(a.status)
         THEN decision("ok", "upstream", "", "none", "none", "success")
         ELSE decision("ambiguous", IF a.dispatch = "local" THEN "internal" ELSE "upstream", "", "none", "none",
                       "fallback.missing_evidence")
    ELSE IF a.ev.kind = "canceled"
    THEN decision("downstream_cancel", "downstream", "request", "none", "none", "safety.execution_canceled")
    ELSE IF a.ev.code = "upstream_empty_response"
    THEN constrainCommittedDecision(
             decision("ambiguous", "upstream", "request", "next_candidate", "none", "content.empty_response"), a)
    ELSE IF a.dispatch = "not_sent" THEN NotSent(a, c)
    ELSE IF a.dispatch # "maybe_sent"
    THEN decision("ambiguous", originForEvidence(a.ev), a.ev.scope, "none", "none", "fallback.invalid_dispatch_state")
    ELSE Sent(a, c)

(* An error next to upstream evidence is the upstream's unless the client   *)
(* already receives the answer or went away.                                *)
DownstreamError(a) == IF a.ev.kind # "none" /\ ~a.committed /\ a.down = "failed" THEN "none" ELSE a.down

(* Searches and live calls share credentials with text requests but not     *)
(* their limits: only a group or an authentication failure touches health.  *)
judgeUpstreamResult(a, c) ==
    LET d == JudgeExecution([a EXCEPT !.down = DownstreamError(a)], c)
    IN  IF /\ c.op \in {"web_search", "live_call"}
           /\ d.effect # "skip_group"
           /\ d.category \notin {"authentication_required", "invalid_key"}
        THEN [d EXCEPT !.effect = "none", !.until = ""]
        ELSE d

-----------------------------------------------------------------------------
(* Every attempt is judged in every context.                                *)

Init ==
    /\ attempt \in Attempts
    /\ context = [op |-> "", read |-> FALSE, refreshable |-> FALSE, rules |-> <<>>]
    /\ verdict = NoVerdict

\* Only chats and Responses are watched for answers without content, so only
\* they can report the empty-response code.
emptyResponseRetryEnabled(op) == op \in {"chat_completion", "responses_create"}

Judge ==
    /\ verdict = NoVerdict
    /\ \E c \in Contexts :
          /\ attempt.ev.code = "upstream_empty_response" => emptyResponseRetryEnabled(c.op)
          /\ context' = c
          /\ verdict' = judgeUpstreamResult(attempt, c)
    /\ UNCHANGED attempt

Next == Judge

Spec == Init /\ [][Next]_vars

-----------------------------------------------------------------------------
Judged == verdict # NoVerdict

Retried == verdict.retry # "none"

(* What a failed attempt's evidence proves about a second dispatch.  "ReplayPolicyRequire-  *)
(* RejectedBeforeProcessing permits another dispatch only when the provider explicitly      *)
(* proves that processing never started" (execution/contracts.go): no error rule, category  *)
(* or hint gets a strict operation dispatched again otherwise.                              *)
StrictIsNeverReplayed ==
    Judged /\ context.op \in StrictOperations /\ attempt.dispatch = "maybe_sent" /\ Retried
        => attempt.ev.replay = "rejected"

(* An attempt whose outcome is unknown is final: the evidence says so, or nothing came back *)
(* from an upstream that may have the request.  No operation, rule or hint overrides it.    *)
UnknownOutcomeIsFinal ==
    Judged /\ Retried /\ attempt.dispatch = "maybe_sent" =>
        /\ attempt.ev.replay # "unknown"
        /\ attempt.ev.kind \in {"transport", "timeout"} => ResponseStarted(attempt)

(* Decision.Validate: a cooldown carries a deadline and nothing else does, whatever the     *)
(* safety constraints and the error rules removed on the way.                               *)
CooldownsHaveDeadlines ==
    Judged => (verdict.effect \in {"cooldown_model", "cooldown_credential"} <=> verdict.until # "")

(* A client that went away costs a credential nothing: at most the model that answered      *)
(* with a rate limit cools down, and nothing is retried for nobody.                         *)
CancelHurtsNobody ==
    Judged /\ DownstreamError(attempt) # "none" =>
        /\ ~Retried
        /\ verdict.effect \in {"none", "cooldown_model"}
        /\ verdict.effect = "cooldown_model" => attempt.ev.hint = "rate_limited"

(* A stream the client already receives is never retried, and only evidence that names the  *)
(* credential or the rate-limited model touches health; an error rule cannot widen it.      *)
CommittedIsFinal ==
    Judged /\ attempt.committed =>
        /\ ~Retried
        /\ verdict.effect # "skip_group"
        /\ verdict.effect \in {"cooldown_credential", "record_credential_failure"} =>
              attempt.ev.scope = "credential" \/ attempt.ev.hint = "invalid_credential"

(* Only the refusal of a refreshable credential before processing asks for a refresh, so a  *)
(* refresh replay never repeats work of an operation.                                       *)
RefreshIsJustified ==
    Judged /\ verdict.retry = "refresh_credential" =>
        /\ context.refreshable
        /\ attempt.ev.hint = "refresh_required"
        /\ attempt.ev.replay = "rejected"
        /\ ~attempt.committed
=============================================================================
