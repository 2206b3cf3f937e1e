------------------------------ MODULE RateLimits ------------------------------
(***************************************************************************)
(* The limits the API puts on its callers, all kept in memory by guards:   *)
(* the fixed window of an address (RpcRateLimitGuard without an owner key  *)
(* and ShareResolveRateLimitGuard), the sliding window of an owner         *)
(* (RpcRateLimitGuard with one), and the failed attempts of an address     *)
(* (OwnerKeyGuard).  A caller is one address or owner key under one guard; *)
(* callers share nothing.                                                  *)
(***************************************************************************)
EXTENDS Integers, Sequences

CONSTANTS
  Caller,
  MaxRequests,  \* MAX_REQUESTS, and MAX_ATTEMPTS
  OwnerMax,     \* resolveOwnerRateLimit's max
  OwnerBurst,   \* and its burst, which is clamped to max
  LimitWindow,  \* WINDOW_MS, OWNER_WINDOW_MS and RATE_LIMIT_WINDOW
  MaxClock      \* bound on the clock

ASSUME LimitAssumption ==
  /\ MaxRequests \in Nat \ {0} /\ OwnerMax \in Nat \ {0} /\ OwnerBurst \in 1 .. OwnerMax
  /\ LimitWindow \in Nat \ {0} /\ MaxClock \in Nat \ {0}

VARIABLES
  clock,   \* Date.now()
  limiter, \* limiter[c]: the guard of caller c
  bucket,  \* bucket[c]: the entry of a fixed window; count 0 stands for none
  stamps,  \* stamps[c]: the timestamps of a sliding window
  passed,  \* history: passed[c][t]: how often c was let through, or failed, until t
  advice   \* history: the time the newest refusal told c to wait for, or 0

limitVars == <<clock, limiter, bucket, stamps, passed, advice>>

LimitInit ==
  /\ clock = 1
  /\ limiter \in [Caller -> {"address", "owner", "attempts"}]
  /\ bucket = [c \in Caller |-> [count |-> 0, resetAt |-> 0]]
  /\ stamps = [c \in Caller |-> <<>>]
  /\ passed = [c \in Caller |-> [t \in 0 .. MaxClock |-> 0]]
  /\ advice = [c \in Caller |-> 0]

Passes(c) ==
  /\ passed' = [passed EXCEPT ![c] =
       [t \in 0 .. MaxClock |-> IF t < clock THEN @[t] ELSE @[t] + 1]]
  /\ advice' = [advice EXCEPT ![c] = 0]
Refused(c, until) ==
  /\ advice' = [advice EXCEPT ![c] = until]
  /\ UNCHANGED passed

-----------------------------------------------------------------------------
(* Of the fixed windows, resetAt itself is in the next one; of the failed  *)
(* attempts, it is still in the same.                                      *)
Over(c) ==
  \/ bucket[c].count = 0
  \/ IF limiter[c] = "attempts" THEN clock > bucket[c].resetAt ELSE clock >= bucket[c].resetAt

(* Mutant: every request opens a new window. *)
CountedAgain(c) == bucket' = [bucket EXCEPT ![c] = [count |-> 1, resetAt |-> clock + LimitWindow]]

Counted(c) ==
  bucket' = [bucket EXCEPT ![c] =
    IF Over(c) THEN [count |-> 1, resetAt |-> clock + LimitWindow]
    ELSE [@ EXCEPT !.count = bucket[c].count + 1]]

Full(c) == ~ Over(c) /\ bucket[c].count >= MaxRequests

(* checkIpRateLimit, and canActivate of the shares' guard. *)
AddressRequest(c) ==
  /\ limiter[c] = "address"
  /\ \/ ~ Full(c) /\ Counted(c) /\ Passes(c)
     \/ Full(c) /\ UNCHANGED bucket /\ Refused(c, bucket[c].resetAt)
  /\ UNCHANGED <<clock, limiter, stamps>>

(* OwnerKeyGuard: isRateLimited deletes an old entry and refuses without   *)
(* telling until when; only a key that is found wanting is recorded.       *)
KeyRequest(c) ==
  /\ limiter[c] = "attempts"
  /\ \/ ~ Full(c) /\ Counted(c) /\ Passes(c)
     \/ /\ Over(c) /\ bucket' = [bucket EXCEPT ![c] = [count |-> 0, resetAt |-> 0]]
        /\ UNCHANGED <<passed, advice>>
  /\ UNCHANGED <<clock, limiter, stamps>>

-----------------------------------------------------------------------------
(* The filter of the timestamps: they are in order, so that those which    *)
(* have left the window are the first ones.                                *)
Gone(c) ==
  CHOOSE n \in 0 .. Len(stamps[c]) :
    \A i \in DOMAIN stamps[c] : stamps[c][i] + LimitWindow <= clock <=> i <= n

InWindow(c) == SubSeq(stamps[c], Gone(c) + 1, Len(stamps[c]))

(* Mutant: the burst is allowed on top of the window. *)
AllowsBurstMore(c) == Len(InWindow(c)) < OwnerMax + OwnerBurst

Allows(c) == Len(InWindow(c)) < OwnerBurst \/ Len(InWindow(c)) < OwnerMax

(* Mutant: a refusal tells the time of the newest request in the window. *)
AdviceOfNewest(c) == InWindow(c)[Len(InWindow(c))] + LimitWindow

Advice(c) == InWindow(c)[1] + LimitWindow

(* checkOwnerRateLimit: the burst first, then the window. *)
OwnerRequest(c) ==
  /\ limiter[c] = "owner"
  /\ \/ Allows(c) /\ Passes(c) /\ stamps' = [stamps EXCEPT ![c] = Append(InWindow(c), clock)]
     \/ /\ ~ Allows(c) /\ Refused(c, Advice(c))
        /\ stamps' = [stamps EXCEPT ![c] = InWindow(c)]
  /\ UNCHANGED <<clock, limiter, bucket>>

LimitTick ==
  /\ clock < MaxClock /\ clock' = clock + 1
  /\ UNCHANGED <<limiter, bucket, stamps, passed, advice>>

LimitNext ==
  \/ \E c \in Caller : AddressRequest(c) \/ KeyRequest(c) \/ OwnerRequest(c)
  \/ LimitTick

LimitSpec == LimitInit /\ [][LimitNext]_limitVars

-----------------------------------------------------------------------------
(* The buckets have their types; no bucket counts past its limit, and the  *)
(* stamps are in order and not in the future.                              *)
LimitTypeOK ==
  /\ clock \in Nat /\ limiter \in [Caller -> {"address", "owner", "attempts"}]
  /\ bucket \in [Caller -> [count : 0 .. MaxRequests, resetAt : Nat]]
  /\ \A c \in Caller : /\ stamps[c] \in Seq(1 .. clock) /\ Len(stamps[c]) <= OwnerMax
                       /\ \A i, j \in DOMAIN stamps[c] : i <= j => stamps[c][i] <= stamps[c][j]
  /\ passed \in [Caller -> [0 .. MaxClock -> Nat]] /\ advice \in [Caller -> Nat]

(* The spans of time that are no longer than the window, and what c got    *)
(* through after the first and until the second moment of one.             *)
Span == {s \in (0 .. MaxClock) \X (0 .. MaxClock) : s[1] <= s[2] /\ s[2] <= s[1] + LimitWindow}

PassedIn(c, s) == passed[c][s[2]] - passed[c][s[1]]

(* The windows of an address follow each other: in any span as long as a   *)
(* window it gets through at most twice the limit, at the seam of two.     *)
FixedWindowsAtMostDouble ==
  \A c \in Caller : limiter[c] # "owner" => \A s \in Span : PassedIn(c, s) <= 2 * MaxRequests

(* The window of an owner slides: in any span as long as the window it     *)
(* gets through at most the limit, the burst included.                     *)
SlidingWindowHolds ==
  \A c \in Caller : limiter[c] = "owner" => \A s \in Span : PassedIn(c, s) <= OwnerMax

(* Retry-After is exact: a caller that was refused is refused until the    *)
(* time it was told, and from then on it is let through.                   *)
RetryAfterIsExact ==
  \A c \in Caller :
    advice[c] # 0 =>
      (clock >= advice[c] <=> IF limiter[c] = "owner" THEN Allows(c) ELSE ~ Full(c))

(* Together: how much either kind of window lets through in any span, and  *)
(* that it tells a refused caller the truth.                               *)
LimitInv ==
  /\ LimitTypeOK /\ FixedWindowsAtMostDouble /\ SlidingWindowHolds
  /\ RetryAfterIsExact
=============================================================================
