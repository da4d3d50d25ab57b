----------------------------- MODULE RateLimits -----------------------------
(***************************************************************************)
(* The gateway's admission limits: concurrency permits of requests and of  *)
(* attempts (ratelimit.Concurrency), and the request rate of access keys   *)
(* (ratelimit.AccessKeyRPM).  Limits are read from the snapshot published  *)
(* at the moment of admission; permits outlive the snapshot they were      *)
(* taken under.  Time is in ticks; a limit of 0 is no limit.               *)
(***************************************************************************)
EXTENDS Integers, Sequences, FiniteSets, SequencesExt

CONSTANTS
    Requests,   \* requests in flight
    Accounts,   \* account pools, shared by groups
    Configs,    \* the configurations that may be published
    Second, Minute,  \* their lengths in ticks
    MaxNow      \* bound on the clock

AllKeys == UNION {DOMAIN f.key : f \in Configs}
RateKeys == UNION {DOMAIN f.rpm : f \in Configs}
AllGroups == UNION {DOMAIN f.group : f \in Configs}
NoAccount == "none"

ConstantsAssumption ==
    /\ Second \in Nat \ {0} /\ Minute \in Nat \ {0} /\ Minute % Second = 0
    /\ MaxNow \in Nat /\ NoAccount \notin Accounts

VARIABLES
    now,        \* the clock
    cfg,        \* the published limits
    global, keys, groups, accounts,  \* permits counted
    windows,    \* windows[a]: admissions of account a, oldest first
    swept,      \* lastSweep
    held,       \* held[r]: the permits request r holds
    rates,      \* rates[k]: the sliding window of access key k
    cleaned,    \* lastCleanup, -1 when never
    admitted,   \* admissions counted against an account or a key (history)
    refusal     \* the last refusal by rate: window, limit, time to retry

permits == <<global, keys, groups, accounts, windows, swept, held>>
limiter == <<rates, cleaned, refusal>>
vars == <<now, cfg, permits, limiter, admitted>>

NoPermit == [key |-> "none", group |-> "none", account |-> NoAccount]
NoRefusal == [window |-> <<>>, limit |-> 0, until |-> 0]

Init ==
    /\ now = 0 /\ cfg \in Configs
    /\ global = 0 /\ keys = [k \in AllKeys |-> 0] /\ groups = [g \in AllGroups |-> 0]
    /\ accounts = [a \in Accounts |-> 0] /\ windows = [a \in Accounts |-> <<>>]
    /\ swept = 0 /\ held = [r \in Requests |-> NoPermit]
    /\ rates = [k \in RateKeys |-> <<>>] /\ cleaned = -1
    /\ admitted = [x \in Accounts \cup RateKeys |-> <<>>]
    /\ refusal = NoRefusal

Reached(limit, count) == limit > 0 /\ count >= limit

(* dropThrough: what is a minute old or older leaves the window. *)
Recent(w) == SelectSeq(w, LAMBDA t : t > now - Minute)

(* TryAcquireRequest under the publication lock. *)
AcquireRequest(r, k) ==
    /\ held[r] = NoPermit /\ k \in DOMAIN cfg.key
    /\ ~Reached(cfg.global, global) /\ ~Reached(cfg.key[k], keys[k])
    /\ global' = global + 1 /\ keys' = [keys EXCEPT ![k] = @ + 1]
    /\ held' = [held EXCEPT ![r].key = k]
    /\ UNCHANGED <<now, cfg, groups, accounts, windows, swept, limiter, admitted>>

ReleaseRequest(r) ==
    /\ held[r].key # "none" /\ held[r].group = "none"
    /\ global' = global - 1 /\ keys' = [keys EXCEPT ![held[r].key] = @ - 1]
    /\ held' = [held EXCEPT ![r] = NoPermit]
    /\ UNCHANGED <<now, cfg, groups, accounts, windows, swept, limiter, admitted>>

(* sweepAccountWindows, at most once a minute. *)
Swept == IF now - swept < Minute THEN windows ELSE [a \in Accounts |-> Recent(windows[a])]

(* The three refusals of TryAcquireGroupAccount. *)
Blocked(g) ==
    LET a == cfg.group[g].pool IN
    \/ Reached(cfg.group[g].limit, groups[g])
    \/ /\ a # NoAccount
       /\ \/ Reached(cfg.group[g].concurrency, accounts[a])
          \/ Reached(cfg.group[g].rpm, Len(Recent(Swept[a])))

(* TryAcquireGroupAccount under the publication lock, for one attempt.     *)
AcquireGroup(r, g) ==
    LET a == cfg.group[g].pool
        counted == a # NoAccount /\ cfg.group[g].rpm > 0 IN
    /\ held[r].key # "none" /\ held[r].group = "none" /\ g \in DOMAIN cfg.group
    /\ swept' = IF now - swept < Minute THEN swept ELSE now
    /\ IF Blocked(g)
       THEN windows' = Swept /\ UNCHANGED <<groups, accounts, held, admitted>>
       ELSE /\ groups' = [groups EXCEPT ![g] = @ + 1]
            /\ accounts' = IF a = NoAccount THEN accounts ELSE [accounts EXCEPT ![a] = @ + 1]
            /\ windows' = IF a = NoAccount THEN Swept
                          ELSE [Swept EXCEPT ![a] = Recent(@) \o (IF counted THEN <<now>> ELSE <<>>)]
            /\ admitted' = IF counted THEN [admitted EXCEPT ![a] = Append(Recent(@), now)] ELSE admitted
            /\ held' = [held EXCEPT ![r].group = g, ![r].account = a]
    /\ UNCHANGED <<now, cfg, global, keys, limiter>>

(* The release of an attempt: the group and the account it was counted on. *)
ReleaseGroup(r) ==
    LET g == held[r].group  a == held[r].account IN
    /\ g # "none"
    /\ groups' = [groups EXCEPT ![g] = @ - 1]
    /\ accounts' = IF a = NoAccount THEN accounts ELSE [accounts EXCEPT ![a] = @ - 1]
    /\ held' = [held EXCEPT ![r].group = "none", ![r].account = NoAccount]
    /\ UNCHANGED <<now, cfg, global, keys, windows, swept, limiter, admitted>>

-----------------------------------------------------------------------------
(* cleanup, at most once a minute. *)
Cleaned ==
    IF cleaned # -1 /\ now - cleaned < Minute THEN rates
    ELSE [k \in RateKeys |-> Recent(rates[k])]

CeilToSecond(d) == IF d <= 0 THEN d ELSE ((d + Second - 1) \div Second) * Second
Clamp(d) == IF d < Second THEN Second ELSE IF d > Minute THEN Minute ELSE d

(* When the request that must leave the window has left it: after a limit  *)
(* was lowered, more than the oldest one.                                  *)
RetryAfter(w, limit) == Clamp(CeilToSecond(w[Len(w) - limit + 1] + Minute - now))

(* AccessKeyRPM.Allow with the limit of the request's snapshot. *)
Allow(k) ==
    LET limit == cfg.rpm[k]  w == Recent(Cleaned[k]) IN
    /\ k \in DOMAIN cfg.rpm
    /\ cleaned' = IF cleaned # -1 /\ now - cleaned < Minute THEN cleaned ELSE now
    /\ \/ /\ limit = 0
          /\ rates' = [Cleaned EXCEPT ![k] = <<>>]
          /\ admitted' = [admitted EXCEPT ![k] = <<>>] /\ UNCHANGED refusal
       \/ /\ Reached(limit, Len(w))
          /\ rates' = [Cleaned EXCEPT ![k] = w]
          /\ refusal' = [window |-> w, limit |-> limit, until |-> now + RetryAfter(w, limit)]
          /\ UNCHANGED admitted
       \/ /\ limit > 0 /\ ~Reached(limit, Len(w))
          /\ rates' = [Cleaned EXCEPT ![k] = Append(w, now)]
          /\ admitted' = [admitted EXCEPT ![k] = Append(Recent(@), now)] /\ UNCHANGED refusal
    /\ UNCHANGED <<now, cfg, permits>>

Publish == cfg' \in Configs \ {cfg} /\ UNCHANGED <<now, permits, limiter, admitted>>
Tick == now < MaxNow /\ now' = now + 1 /\ UNCHANGED <<cfg, permits, limiter, admitted>>

PermitStep ==
    \E r \in Requests : \/ \E k \in AllKeys : AcquireRequest(r, k)
                        \/ \E g \in AllGroups : AcquireGroup(r, g)
                        \/ ReleaseGroup(r) \/ ReleaseRequest(r)

(* The two limiters share no state: each is checked on its own. *)
PermitNext == PermitStep \/ Publish \/ Tick
RateNext == (\E k \in RateKeys : Allow(k)) \/ Publish \/ Tick

-----------------------------------------------------------------------------
(* Every counter is the number of permits outstanding, whatever was        *)
(* published between taking a permit and giving it back: no permit leaks,  *)
(* none is given back twice or to another group's account.                 *)
CountsAreHeld ==
    LET Count(P(_)) == Cardinality({r \in Requests : P(held[r])}) IN
    /\ global = Count(LAMBDA h : h.key # "none")
    /\ \A k \in AllKeys : keys[k] = Count(LAMBDA h : h.key = k)
    /\ \A g \in AllGroups : groups[g] = Count(LAMBDA h : h.group = g)
    /\ \A a \in Accounts : accounts[a] = Count(LAMBDA h : h.account = a)

(* The window of an account or a key holds every admission of the last     *)
(* minute: sweeps, cleanups and refusals by other groups that share the    *)
(* account forget nothing that still counts.                               *)
NothingForgotten ==
    /\ \A a \in Accounts : Recent(windows[a]) = Recent(admitted[a])
    /\ \A k \in RateKeys : Recent(rates[k]) = Recent(admitted[k])

(* An account is never used faster than the most generous of the rates its *)
(* groups are given: the groups that share it do not add up.               *)
SharedRate ==
    \A a \in Accounts :
        Len(Recent(admitted[a])) > 0 =>
            \E f \in Configs : \E g \in DOMAIN f.group :
                f.group[g].pool = a /\ Len(Recent(admitted[a])) <= f.group[g].rpm

(* The Retry-After of a refusal is long enough, also after the limit was   *)
(* lowered: a request at that time finds room if none came in between.     *)
(* And it is not a second too long.                                        *)
RetryAfterIsExact ==
    LET left(t) == Len(SelectSeq(refusal.window, LAMBDA u : u > t - Minute)) IN
    refusal # NoRefusal =>
        /\ left(refusal.until) < refusal.limit
        /\ left(refusal.until - Second) >= refusal.limit
=============================================================================
