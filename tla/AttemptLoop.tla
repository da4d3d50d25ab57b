----------------------------- MODULE AttemptLoop -----------------------------
(***************************************************************************)
(* One request through the gateway (Handler.Handle, executeAttempts): its    *)
(* permits, its quota ticket, the loop over candidates with the replay after  *)
(* a credential refresh, the answer it finally gives and the record it keeps. *)
(*                                                                         *)
(* Meanwhile other requests and the control plane change the credential      *)
(* registry: tokens are refreshed, credentials are retargeted, disabled or    *)
(* cooled.  The registry is read at three places of one attempt: the          *)
(* scheduler picks a candidate, the handler reads its secret, and the effect  *)
(* of the result is applied to it.                                          *)
(*                                                                         *)
(* An upstream result is a shape (how the loop treats it) with the evidence   *)
(* the error judge sees; the judge is the one of ErrorJudge.                  *)
(***************************************************************************)
EXTENDS Integers, Sequences, FiniteSets, SequencesExt

CONSTANTS Creds, Groups,
          GroupOf,      \* the group of a credential
          Priority,     \* the priority of a group
          Results,      \* records [shape, streams, clean, a]
          Context,      \* the context of the judge
          Limit,        \* forward attempts: retryAttemptLimit
          Threshold,    \* failures that blacklist a credential
          Cooling,      \* the credentials that may be cooling down at first
          MaxChanges    \* bound: changes of the registry by others

AttemptAssumption ==
    /\ Creds # {} /\ GroupOf \in [Creds -> Groups] /\ Priority \in [Groups -> Nat \ {0}]
    /\ Limit \in Nat \ {0} /\ Threshold \in Nat \ {0} /\ MaxChanges \in Nat
    /\ Cooling \subseteq Creds

VARIABLES reg,      \* the registry: [ver, gen, active, cool, fails] of each credential
          changes,  \* changes others made so far
          ctx,      \* "live" or "canceled"
          pc,       \* where the request is
          stream,   \* the client asked for a stream
          broken,   \* the groups whose parameter overrides cannot be applied
          refs,     \* allowedCredentialRefs; ver 0: not captured
          it,       \* the iterator: [tried, skipped, limit, lower]
          sel,      \* the selection, with the version of the secret read
          replay,   \* refreshRetry and authRefreshReplayUsed
          log,      \* the attempts recorded
          pending,  \* pendingRetry, 0 for none
          last,     \* the answers kept while the loop goes on, as indexes of log
          ticket,   \* the quota ticket
          permits,  \* concurrency: of the request and of a group
          end,      \* the outcome, the attempt it is taken from and the replies written
          blame     \* history: where effects landed

reqVars == <<pc, stream, broken, refs, it, sel, replay, log, pending, last, ticket, permits, end>>
vars == <<reg, changes, ctx, reqVars, blame>>

J == INSTANCE ErrorJudge WITH Attempts <- {}, Contexts <- {}, attempt <- {}, context <- {}, verdict <- {}

NoGroup == {}
NoSel == [cred |-> CHOOSE c \in Creds : TRUE, ver |-> 0, gen |-> 0, force |-> FALSE, via |-> "none", secret |-> 0]

Finals == {"", "refused", "stream", "answer", "empty", "provider", "transport", "conversion",
           "override", "cooldown", "no_candidate", "canceled", "interim"}

TypeOK ==
    /\ reg \in [Creds -> [ver : Nat, gen : Nat, active : BOOLEAN, cool : BOOLEAN, fails : 0..Threshold]]
    /\ changes \in 0..MaxChanges /\ ctx \in {"live", "canceled"}
    /\ pc \in {"enter", "check", "capture", "loop", "read", "prepare", "admit", "forward", "after", "leave", "gone"}
    /\ refs \in [Creds -> [ver : Nat, gen : Nat]]
    /\ it \in [tried : SUBSET Creds, skipped : SUBSET Groups, limit : Nat, lower : BOOLEAN]
    /\ sel \in [cred : Creds, ver : Nat, gen : Nat, force : BOOLEAN, via : {"none", "next", "replay"}, secret : Nat]
    /\ Cardinality(replay.wanted) <= 1 /\ replay.used \in BOOLEAN
    /\ pending \in 0..Len(log)
    /\ last \in [{"empty", "provider", "answer", "transport", "conversion"} -> 0..Len(log)]
    /\ ticket \in {"none", "open", "closed"}
    /\ permits \in [request : BOOLEAN, group : SUBSET Groups]
    /\ end \in [how : Finals, attempt : 0..Len(log), replies : 0..2, emitted : 0..2]

-----------------------------------------------------------------------------
(* Other requests and the control plane.                                    *)

Change(c, entry) ==
    /\ changes < MaxChanges /\ pc \notin {"leave", "gone"}
    /\ changes' = changes + 1
    /\ reg' = [reg EXCEPT ![c] = entry]
    /\ UNCHANGED <<ctx, reqVars, blame>>

Others(c) ==
    \/ Change(c, [reg[c] EXCEPT !.ver = @ + 1])                      \* the token is refreshed
    \/ Change(c, [reg[c] EXCEPT !.ver = @ + 1, !.gen = @ + 1])       \* it points to another account
    \/ reg[c].active /\ Change(c, [reg[c] EXCEPT !.active = FALSE])
    \/ Change(c, [reg[c] EXCEPT !.cool = ~@])                        \* a cooldown begins or runs out

ClientLeaves ==
    /\ ctx = "live" /\ pc \notin {"leave", "gone"}
    /\ ctx' = "canceled"
    /\ UNCHANGED <<reg, changes, reqVars, blame>>

-----------------------------------------------------------------------------
(* Answers.                                                                 *)

\* completeReason and its relatives: the outcome is set, the answer written.
Answer(how, i) ==
    /\ end' = [end EXCEPT !.how = how, !.attempt = i, !.replies = @ + 1]
    /\ pc' = "leave"

\* completeCanceled writes nothing.
Canceled(i) ==
    /\ end' = [end EXCEPT !.how = "canceled", !.attempt = i]
    /\ pc' = "leave"

\* The effect of a decision on the credential the attempt used; guard: it must
\* still have the version of the attempt (refreshCooldownCredentialVersion).
applyDecisionEffect(from, s, d, guard) ==
    LET e == from[s.cred]
        n == IF e.fails = Threshold THEN Threshold ELSE e.fails + 1
    IN  CASE e.gen # s.gen -> from
          [] e.gen = s.gen /\ d.effect \in {"cooldown_credential", "cooldown_model"} /\ (guard => e.ver = s.ver) ->
                 [from EXCEPT ![s.cred].cool = TRUE]
          [] e.gen = s.gen /\ d.effect = "record_credential_failure" ->
                 [from EXCEPT ![s.cred].fails = n, ![s.cred].active = @ /\ n < Threshold]
          [] OTHER -> from

Blamed(from, s, new, guard) ==
    IF new = from THEN blame
    ELSE blame \cup {[gen |-> reg[s.cred].gen, ver |-> reg[s.cred].ver, of |-> s, guard |-> guard]}

\* recordCredentialSuccess: failures of the same account are forgotten.
Cleared(r, s) == IF r[s.cred].gen = s.gen THEN [r EXCEPT ![s.cred].fails = 0] ELSE r

-----------------------------------------------------------------------------
Init ==
    /\ \E cooling \in SUBSET Cooling :
          reg = [c \in Creds |-> [ver |-> 1, gen |-> 1, active |-> TRUE, cool |-> c \in cooling, fails |-> 0]]
    /\ changes = 0 /\ ctx = "live" /\ pc = "enter"
    /\ stream \in BOOLEAN /\ broken \in SUBSET Groups
    /\ refs = [c \in Creds |-> [ver |-> 0, gen |-> 0]]
    /\ it = [tried |-> {}, skipped |-> {}, limit |-> 0, lower |-> FALSE]
    /\ sel = NoSel /\ replay = [wanted |-> {}, used |-> FALSE]
    /\ log = <<>> /\ pending = 0
    /\ last = [k \in {"empty", "provider", "answer", "transport", "conversion"} |-> 0]
    /\ ticket = "none" /\ permits = [request |-> FALSE, group |-> NoGroup]
    /\ end = [how |-> "", attempt |-> 0, replies |-> 0, emitted |-> 0]
    /\ blame = {}

\* acquireRequestConcurrency.
Enter ==
    /\ pc = "enter"
    /\ \/ Answer("refused", 0) /\ UNCHANGED permits
       \/ permits' = [permits EXCEPT !.request = TRUE] /\ pc' = "check" /\ UNCHANGED end
    /\ UNCHANGED <<reg, changes, ctx, stream, broken, refs, it, sel, replay, log, pending, last, ticket, blame>>

\* The quota check, the rate limit, the body and the bindings of the request.
Check ==
    /\ pc = "check"
    /\ \/ Answer("refused", 0)
       \/ pc' = "capture" /\ UNCHANGED end
    /\ UNCHANGED <<reg, changes, ctx, stream, broken, refs, it, sel, replay, log, pending, last, ticket, permits, blame>>

\* CaptureActiveCredentialRefs.
Capture ==
    /\ pc = "capture"
    /\ refs' = [c \in Creds |-> IF reg[c].active THEN [ver |-> reg[c].ver, gen |-> reg[c].gen] ELSE refs[c]]
    /\ pc' = "loop"
    /\ UNCHANGED <<reg, changes, ctx, stream, broken, it, sel, replay, log, pending, last, ticket, permits, end, blame>>

-----------------------------------------------------------------------------
(* The scheduler.                                                           *)

Usable(c) == reg[c].active /\ ~reg[c].cool

\* Mutant: a group whose credential was passed over is not asked again.
PoolOnePerGroup ==
    {c \in Creds : /\ refs[c].ver # 0 /\ reg[c].gen = refs[c].gen /\ Usable(c)
                   /\ \A t \in it.tried : GroupOf[t] # GroupOf[c]
                   /\ GroupOf[c] \notin it.skipped}

\* withWeightedPool: captured, untried, of the same account and usable.
Pool == {c \in Creds : /\ refs[c].ver # 0 /\ reg[c].gen = refs[c].gen /\ Usable(c)
                       /\ c \notin it.tried /\ GroupOf[c] \notin it.skipped}

PriorityOf(c) == Priority[GroupOf[c]]

\* The highest priority not above the limit; after a failure the next lower
\* one, unless there is none.
priorityCandidates(pool) ==
    LET allowed == {c \in pool : it.limit = 0 \/ PriorityOf(c) <= it.limit}
        lower == {c \in allowed : it.lower /\ PriorityOf(c) < it.limit}
        from == IF lower # {} THEN lower ELSE allowed
    IN  {c \in from : \A d \in from : PriorityOf(d) <= PriorityOf(c)}

AdvancePriority(i, c) == [i EXCEPT !.limit = PriorityOf(c), !.lower = TRUE]

Looping == pc = "loop" /\ Len(SelectSeq(log, LAMBDA e : e.forwarded)) < Limit

Exhausted ==
    /\ pc = "loop" /\ ~Looping
    /\ pc' = "after"
    /\ UNCHANGED <<reg, changes, ctx, stream, broken, refs, it, sel, replay, log, pending, last, ticket, permits, end, blame>>

LeftAtTop ==
    /\ Looping /\ ctx = "canceled"
    /\ Canceled(Len(log))
    /\ UNCHANGED <<reg, changes, ctx, stream, broken, refs, it, sel, replay, log, pending, last, ticket, permits, blame>>

\* Mutant: a candidate counts as tried only once it is forwarded.
ChosenAgain(i, c) == [i EXCEPT !.limit = IF @ = 0 THEN 0 ELSE PriorityOf(c), !.lower = FALSE]

Chosen(i, c) ==
    [i EXCEPT !.tried = @ \cup {c}, !.limit = IF @ = 0 THEN 0 ELSE PriorityOf(c), !.lower = FALSE]

\* Iterator.Next.
SelectNext ==
    /\ Looping /\ ctx = "live" /\ replay.wanted = {}
    /\ IF priorityCandidates(Pool) = {} THEN pc' = "after" /\ UNCHANGED <<it, sel>>
       ELSE \E c \in priorityCandidates(Pool) :
              /\ it' = Chosen(it, c)
              /\ sel' = [cred |-> c, ver |-> refs[c].ver, gen |-> refs[c].gen, force |-> FALSE,
                       via |-> "next", secret |-> 0]
              /\ pc' = "read"
    /\ UNCHANGED <<reg, changes, ctx, stream, broken, refs, replay, log, pending, last, ticket, permits, end, blame>>

\* A token that changed meanwhile need not be refreshed again.
forceCredentialRefresh(w) == reg[w.cred].ver <= w.ver

\* The replay of the same credential: the same account, and the scheduler's leave.
SelectReplay ==
    /\ Looping /\ ctx = "live"
    /\ \E w \in replay.wanted :
         LET same == reg[w.cred].gen = w.gen IN
         /\ replay' = [wanted |-> {}, used |-> replay.used \/ same]
         /\ IF same /\ Usable(w.cred)
            THEN /\ sel' = [cred |-> w.cred, ver |-> reg[w.cred].ver, gen |-> reg[w.cred].gen,
                            force |-> forceCredentialRefresh(w), via |-> "replay", secret |-> 0]
                 /\ pc' = "read"
            ELSE UNCHANGED <<sel, pc>>
    /\ UNCHANGED <<reg, changes, ctx, stream, broken, refs, it, log, pending, last, ticket, permits, end, blame>>

\* ActiveEncryptedCredentialDataIfMatch.
Matches(s) == reg[s.cred].ver = s.ver /\ reg[s.cred].gen = s.gen /\ reg[s.cred].active

Read ==
    /\ pc = "read"
    /\ pc' = IF Matches(sel) THEN "prepare" ELSE "loop"
    /\ sel' = [sel EXCEPT !.secret = IF Matches(sel) THEN reg[sel.cred].ver ELSE 0]
    /\ UNCHANGED <<reg, changes, ctx, stream, broken, refs, it, replay, log, pending, last, ticket, permits, end, blame>>

-----------------------------------------------------------------------------
(* Preparing an attempt.                                                    *)

\* beforeForward: only now is the previous attempt one that was retried.
Marked == IF pending = 0 THEN log ELSE [log EXCEPT ![pending].retried = TRUE]

Entry(forwarded) ==
    [cred |-> sel.cred, ver |-> sel.ver, gen |-> sel.gen, force |-> sel.force, secret |-> sel.secret,
     forwarded |-> forwarded, shape |-> "none", replay |-> "", directive |-> "none", retried |-> FALSE]

PreparationFailure(code) ==
    [dispatch |-> "not_sent", status |-> 0, committed |-> FALSE, down |-> "none",
     ev |-> [kind |-> "internal", origin |-> "internal", hint |-> "", status |-> 0, code |-> code, replay |-> "",
             wait |-> "", scope |-> IF code = "group_proxy_prepare_failed" THEN "group" ELSE "credential"]]

Skipped(i, d) == IF d.effect = "skip_group" THEN [i EXCEPT !.skipped = @ \cup {GroupOf[sel.cred]}] ELSE i

\* recordCandidatePreparationFailure.
PreparationFails(code) ==
    LET d == J!judgeUpstreamResult(PreparationFailure(code), Context)
        new == applyDecisionEffect(reg, [cred |-> sel.cred, ver |-> refs[sel.cred].ver, gen |-> refs[sel.cred].gen], d, FALSE)
    IN  /\ log' = Append(Marked, [Entry(FALSE) EXCEPT !.shape = "transport", !.directive = d.retry])
        /\ reg' = new /\ blame' = Blamed(reg, sel, new, FALSE)
        /\ it' = Skipped(it, d)
        /\ last' = [last EXCEPT !["transport"] = Len(log) + 1]
        /\ pending' = IF d.retry = "none" THEN 0 ELSE Len(log) + 1
        /\ pc' = IF d.retry = "none" THEN "after" ELSE "loop"
        /\ UNCHANGED <<replay, end>>

\* prepareRequest, then the secret, the credential and the proxy.
Prepare ==
    /\ pc = "prepare"
    /\ \/ Answer("refused", 0) /\ UNCHANGED <<reg, it, replay, log, pending, last, blame>>   \* redaction
       \/ /\ GroupOf[sel.cred] \in broken
          /\ it' = [it EXCEPT !.skipped = @ \cup {GroupOf[sel.cred]}]
          /\ pc' = "loop"
          /\ UNCHANGED <<reg, replay, log, pending, last, end, blame>>
       \/ /\ GroupOf[sel.cred] \notin broken
          /\ \E code \in {"credential_decrypt_failed", "group_proxy_prepare_failed"} : PreparationFails(code)
       \/ /\ GroupOf[sel.cred] \notin broken
          /\ pc' = "admit"
          /\ UNCHANGED <<reg, it, replay, log, pending, last, end, blame>>
    /\ UNCHANGED <<changes, ctx, stream, broken, refs, sel, ticket, permits>>

\* The quota ticket (once), the audit, the client, the permit of the group.
Admit ==
    /\ pc = "admit"
    /\ \/ Answer("refused", 0) /\ UNCHANGED <<ticket, permits, log, pending>>
       \/ ticket' = "open" /\ Answer("refused", 0) /\ UNCHANGED <<permits, log, pending>>
       \/ /\ ctx = "canceled"
          /\ ticket' = "open" /\ Canceled(Len(log)) /\ UNCHANGED <<permits, log, pending>>
       \/ /\ ctx = "live"
          /\ ticket' = "open"
          /\ permits' = [permits EXCEPT !.group = @ \cup {GroupOf[sel.cred]}]
          /\ log' = Append(Marked, Entry(TRUE)) /\ pending' = 0
          /\ pc' = "forward" /\ UNCHANGED end
    /\ UNCHANGED <<reg, changes, ctx, stream, broken, refs, it, sel, replay, last, blame>>

-----------------------------------------------------------------------------
(* The result of an attempt.                                                *)

RefreshGuard(r) == r.a.dispatch = "not_sent" /\ r.a.ev.hint = "refresh_unavailable"

\* Mutant: a second rejection of the credential is replayed as well.
ReplayAgain(d) == d.retry = "refresh_credential"

WantsReplay(d) ==
    d.retry = "refresh_credential" /\ ~replay.used /\ Len(SelectSeq(log, LAMBDA e : e.forwarded)) < Limit

Recorded(r, d) ==
    [log EXCEPT ![Len(log)].shape = r.shape, ![Len(log)].replay = r.a.ev.replay, ![Len(log)].directive = d.retry]

\* The answer is kept in case no later attempt gives a better one.
Keep(kind) ==
    /\ last' = [last EXCEPT ![kind] = Len(log)] /\ pending' = Len(log)
    /\ pc' = "loop" /\ UNCHANGED end

\* The stream reached the client: nothing can be repeated.
ReturnCommitted(r, d) ==
    LET new == applyDecisionEffect(reg, sel, d, FALSE) IN
    /\ reg' = IF r.clean THEN Cleared(new, sel) ELSE new
    /\ blame' = Blamed(reg, sel, new, FALSE)
    /\ end' = [end EXCEPT !.how = "stream", !.attempt = Len(log), !.replies = @ + 1]
    /\ pc' = "leave"
    /\ UNCHANGED <<it, replay, last, pending>>

ReturnToNobody(r, d) ==
    LET new == IF d.effect = "cooldown_model" THEN applyDecisionEffect(reg, sel, d, FALSE) ELSE reg IN
    /\ reg' = new /\ blame' = Blamed(reg, sel, new, FALSE)
    /\ Canceled(Len(log))
    /\ UNCHANGED <<it, replay, last, pending>>

\* An attempt that ended with context.Canceled although the client is there
\* (the runtime was stopped under it) ends the request as canceled, unanswered.
ReturnToLoop(r, d) ==
    LET ok == r.shape = "answer" /\ r.a.dispatch # "local" /\ J!SuccessStatus(r.a.status) /\ ~stream
        from == IF ok THEN Cleared(reg, sel) ELSE reg
        new == applyDecisionEffect(from, sel, d, RefreshGuard(r))
        retry == d.retry # "none"
        inBudget == Len(SelectSeq(log, LAMBDA e : e.forwarded)) < Limit
    IN  /\ reg' = new /\ blame' = Blamed(from, sel, new, RefreshGuard(r))
        /\ replay' = IF WantsReplay(d)
                     THEN [replay EXCEPT !.wanted = {[cred |-> sel.cred, ver |-> sel.ver, gen |-> sel.gen]}]
                     ELSE replay
        /\ it' = Skipped(IF retry THEN AdvancePriority(it, sel.cred) ELSE it, d)
        /\ CASE r.shape = "interim" -> Answer("interim", Len(log)) /\ UNCHANGED <<last, pending>>
             [] r.shape = "empty" -> IF retry /\ inBudget THEN Keep("empty")
                                     ELSE Answer("empty", Len(log)) /\ UNCHANGED <<last, pending>>
             [] r.shape = "canceled" -> Canceled(Len(log)) /\ UNCHANGED <<last, pending>>
             [] OTHER -> IF retry THEN Keep(r.shape)
                         ELSE Answer(r.shape, Len(log)) /\ UNCHANGED <<last, pending>>

Return(r) ==
    /\ pc = "forward" /\ stream \in r.streams
    /\ permits' = [permits EXCEPT !.group = NoGroup]
    /\ LET d == J!judgeUpstreamResult(IF ctx = "canceled" THEN [r.a EXCEPT !.down = "canceled"] ELSE r.a, Context)
       IN  /\ log' = Recorded(r, d)
           /\ IF r.shape = "committed" THEN ReturnCommitted(r, d)
              ELSE IF ctx = "canceled" THEN ReturnToNobody(r, d)
              ELSE ReturnToLoop(r, d)
    /\ UNCHANGED <<changes, ctx, stream, broken, refs, sel, ticket>>

\* What is left to say when no candidate remains.
After ==
    /\ pc = "after"
    /\ CASE last["empty"] # 0 -> Answer("empty", last["empty"])
         [] last["empty"] = 0 /\ last["provider"] # 0 -> Answer("provider", last["provider"])
         [] last["empty"] = 0 /\ last["provider"] = 0 /\ last["answer"] # 0 -> Answer("answer", last["answer"])
         [] last["empty"] = 0 /\ last["provider"] = 0 /\ last["answer"] = 0 /\ last["transport"] # 0 ->
                Answer("transport", last["transport"])
         [] last["empty"] = 0 /\ last["provider"] = 0 /\ last["answer"] = 0 /\ last["transport"] = 0
                /\ last["conversion"] # 0 -> Answer("conversion", last["conversion"])
         [] OTHER -> Answer(IF it.skipped # {} /\ log = <<>> THEN "override"
                            ELSE IF \E c \in Creds : refs[c].ver # 0 /\ reg[c].cool THEN "cooldown"
                            ELSE "no_candidate", 0)
    /\ UNCHANGED <<reg, changes, ctx, stream, broken, refs, it, sel, replay, log, pending, last, ticket, permits, blame>>

\* accessQuota.Complete.
Completed(t) == IF t = "open" THEN "closed" ELSE t

\* The deferred calls of Handle.
Leave ==
    /\ pc = "leave"
    /\ ticket' = Completed(ticket)
    /\ permits' = [permits EXCEPT !.request = FALSE]
    /\ end' = [end EXCEPT !.emitted = @ + 1]
    /\ pc' = "gone"
    /\ UNCHANGED <<reg, changes, ctx, stream, broken, refs, it, sel, replay, log, pending, last, blame>>

Gone == pc = "gone" /\ UNCHANGED vars

Request ==
    \/ Enter \/ Check \/ Capture \/ Exhausted \/ LeftAtTop \/ SelectNext \/ SelectReplay \/ Read
    \/ Prepare \/ Admit \/ (\E r \in Results : Return(r)) \/ After \/ Leave

Next == Request \/ ClientLeaves \/ (\E c \in Creds : Others(c)) \/ Gone

Spec == Init /\ [][Next]_vars

\* Every call of the handler returns: executors have timeouts.
Fairness == WF_vars(Request)

FairSpec == Spec /\ Fairness

-----------------------------------------------------------------------------
(* Properties.                                                              *)

(* A credential is used twice by a request at most once in all, only after   *)
(* the upstream asked for a refresh, and then with the same account and a     *)
(* newer token or an order to refresh it.                                     *)
OneReplay ==
    LET again == {j \in DOMAIN log : log[j].forwarded /\ \E i \in 1..(j - 1) : log[i].forwarded /\ log[i].cred = log[j].cred}
    IN  /\ Cardinality(again) <= 1
        /\ \A j \in again : \A i \in 1..(j - 1) : log[i].forwarded /\ log[i].cred = log[j].cred =>
              /\ log[i].directive = "refresh_credential" /\ log[i].gen = log[j].gen
              /\ log[j].force \/ log[j].ver > log[i].ver

(* Work that an upstream may have done is not done again: nothing follows an  *)
(* attempt that reached the client, whose outcome is unknown, or that the     *)
(* judge did not give back.                                                   *)
NoRepeat ==
    \A i \in 1..(Len(log) - 1) :
        log[i].shape # "committed" /\ log[i].replay # "unknown" /\ log[i].directive # "none"

(* The record tells the truth about retries: an attempt is marked as retried   *)
(* exactly if another one followed it.                                         *)
MarksAreTrue == \A i \in DOMAIN log : log[i].retried <=> i < Len(log)

(* Whatever way the request ended, it gave back what it took: the permit of    *)
(* the request and of every group, the quota ticket; and it left one record    *)
(* and one answer, unless the client had gone or the last attempt itself was   *)
(* canceled, which the handler takes for the client's leaving.                 *)
Balanced ==
    /\ pc = "gone" => /\ ~permits.request /\ permits.group = NoGroup /\ ticket # "open"
                      /\ end.emitted = 1 /\ end.how # ""
                      /\ end.replies = IF end.how = "canceled" THEN 0 ELSE 1
                      /\ end.how = "canceled" =>
                            \/ ctx = "canceled"
                            \/ end.attempt = Len(log) /\ log # <<>> /\ log[Len(log)].shape = "canceled"
    /\ permits.group # NoGroup <=> pc = "forward"
    /\ (\E i \in DOMAIN log : log[i].forwarded) => ticket # "none"

(* "No candidate" is never said once an upstream was tried: its answer is     *)
(* worth more to the client.                                                  *)
HonestNoCandidate == end.how \in {"override", "cooldown", "no_candidate"} => log = <<>>

(* The loop gives up without an attempt only if every credential captured for *)
(* the request has changed since, is out of use, or belongs to a group that    *)
(* cannot take the request.                                                    *)
GivesUpInVain ==
    /\ pc = "loop" /\ pc' = "after" /\ log = <<>>
    /\ \E c \in Creds : /\ refs[c].ver # 0 /\ reg[c].ver = refs[c].ver
                        /\ Usable(c) /\ GroupOf[c] \notin it.skipped
NoCandidateIsTrue == ~GivesUpInVain

(* The effect of a result lands on the account that produced it, although the  *)
(* credential may have been retargeted during the attempt; a failure to        *)
(* refresh does not cool a token that was refreshed meanwhile.                  *)
EffectsHitTheirTarget ==
    \A b \in blame : b.gen = b.of.gen /\ (b.guard => b.ver = b.of.ver)

(* The secret sent upstream is the one of the version the attempt is recorded   *)
(* and judged for, and never that of an account the request was not admitted to. *)
SameAccount ==
    \A i \in DOMAIN log : log[i].secret = log[i].ver /\ log[i].gen = refs[log[i].cred].gen

(* After a failure the request never climbs back to a group of higher priority. *)
NoClimb ==
    \A i, j \in DOMAIN log : i < j /\ log[i].forwarded => PriorityOf(log[j].cred) <= PriorityOf(log[i].cred)

(* Every request ends.                                                          *)
RequestEnds == <>(pc = "gone")
=============================================================================
