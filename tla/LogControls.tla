----------------------------- MODULE LogControls -----------------------------
(***************************************************************************)
(* The pure part of logging: the levels of app/logging/levels.ts, the      *)
(* checks of app/logging/formatter.ts that can refuse an entry, and the    *)
(* sampling and rate limits of app/services/logging/controls.ts.           *)
(*                                                                         *)
(* An entry is [event, level, reason, port]: reason and port stand for the *)
(* two kinds of checked context field, a text by its length and a number   *)
(* by its value; Absent is a field left out.  Rates are percentages.  Time *)
(* is counted in units of the shortest interval of the rules.              *)
(***************************************************************************)
EXTENDS Integers, FiniteSets, Sequences

CONSTANTS
    Absent,
    MAX_REASON_LENGTH      \* the longest reason applyContext() takes

ASSUME ControlsAssumption ==
    /\ MAX_REASON_LENGTH \in Nat
    /\ Absent \notin [tokens : Nat, lastRefill : Nat]

getLevelPriority ==
    [debug |-> 10, info |-> 20, warn |-> 30, error |-> 40]

shouldLog(level, minimum) == getLevelPriority[level] >= getLevelPriority[minimum]

-------------------------------------------------------------------------------
(* formatter.ts *)

isValidReason(length) == length \in 1 .. MAX_REASON_LENGTH

isValidPort(port) == port \in 0 .. 65535

\* A field that is left out is skipped, a field that is there must be valid.
applyContext(entry) ==
    /\ entry.reason # Absent => isValidReason(entry.reason)
    /\ entry.port # Absent => isValidPort(entry.port)

\* Every event of the callers is in the catalogue: only the context can be refused.
formatStructuredLog(entry) == applyContext(entry)

-------------------------------------------------------------------------------
(* controls.ts: a state is [buckets, published, droppedBySampling,         *)
(* droppedByRateLimit]; a bucket is [tokens, lastRefill] or Absent.        *)

createLoggingControlState(keys) ==
    [buckets |-> [k \in keys |-> Absent],
     published |-> 0, droppedBySampling |-> 0, droppedByRateLimit |-> 0]

\* The place of the first rule with a target.
FirstRule(rules, target) ==
    CHOOSE i \in DOMAIN rules :
       /\ rules[i].target = target
       /\ \A j \in DOMAIN rules : rules[j].target = target => i <= j

\* The one rule of an event, or none: the first of its own, or the first wildcard.
RuleFor(rules, event) ==
    LET targets == {rules[i].target : i \in DOMAIN rules}
        target  == IF event \in targets THEN event ELSE "*"
    IN  IF target \in targets THEN <<rules[FirstRule(rules, target)]>> ELSE <<>>

selectSamplingRule(rules, event) == RuleFor(rules, event)

selectRateLimitRule(rules, event) == RuleFor(rules, event)

\* draw is the random number, in percent.
evaluateSampling(event, sampling, draw) ==
    LET rules == selectSamplingRule(sampling.rules, event)
        rate  == IF rules # <<>> THEN Head(rules).sampleRate ELSE sampling.defaultSampleRate
    IN  rate >= 100 \/ (rate > 0 /\ draw < rate)

\* Seeded fault: the time between two whole intervals is given away at every refill.
refillBucketToNow(previous, rule, now, capacity) ==
    IF previous = Absent THEN [tokens |-> capacity, lastRefill |-> now]
    ELSE [tokens |-> previous.tokens + (now - previous.lastRefill) * rule.limit,
          lastRefill |-> now]

\* Whole intervals only, and the remainder is kept for the next refill.  A clock that
\* went back refills nothing.
refillBucket(previous, rule, now, capacity) ==
    IF previous = Absent THEN [tokens |-> capacity, lastRefill |-> now]
    ELSE LET intervals   == (now - previous.lastRefill) \div rule.interval
             replenished == previous.tokens + intervals * rule.limit
         IN  IF now <= previous.lastRefill \/ intervals <= 0 THEN previous
             ELSE [tokens |-> IF replenished < capacity THEN replenished ELSE capacity,
                   lastRefill |-> previous.lastRefill + intervals * rule.interval]

\* The verdict and the buckets after it.
evaluateRateLimit(event, now, rules, buckets) ==
    LET selected == selectRateLimitRule(rules, event)
        rule     == Head(selected)
        key      == IF rule.target = "*" THEN "*" ELSE event
        capacity == rule.limit + rule.burst
        refilled == IF capacity <= 0 THEN [tokens |-> 0, lastRefill |-> now]
                    ELSE refillBucket(buckets[key], rule, now, capacity)
        allow    == refilled.tokens > 0
    IN  IF selected = <<>> THEN [allow |-> TRUE, buckets |-> buckets]
        ELSE [allow   |-> allow,
              buckets |-> [buckets EXCEPT ![key] =
                              IF allow THEN [refilled EXCEPT !.tokens = @ - 1] ELSE refilled]]

\* The entry is counted as published, or by the control that drops it; sampling comes
\* first and takes no token.
evaluateLoggingControls(event, now, config, state, draw) ==
    LET rate == evaluateRateLimit(event, now, config.rateLimit, state.buckets)
    IN  IF ~evaluateSampling(event, config.sampling, draw)
        THEN [allow |-> FALSE, state |-> [state EXCEPT !.droppedBySampling = @ + 1]]
        ELSE IF ~rate.allow
        THEN [allow |-> FALSE,
              state |-> [state EXCEPT !.buckets = rate.buckets, !.droppedByRateLimit = @ + 1]]
        ELSE [allow |-> TRUE,
              state |-> [state EXCEPT !.buckets = rate.buckets, !.published = @ + 1]]
=============================================================================
