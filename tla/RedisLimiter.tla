---------------------------- MODULE RedisLimiter ----------------------------
(***************************************************************************)
(* The distributed fixed-window limiter (RedisLimiter in                   *)
(* crates/gateway/src/ratelimit.rs) for one rate key: handlers of any      *)
(* number of gateway processes run INCR, EXPIRE and TTL as three separate  *)
(* commands on a shared Redis.  A command can fail before or after Redis   *)
(* executes it, and a handler can vanish between two commands (its client  *)
(* disconnects, its process stops).  At most MaxFaults such faults happen. *)
(*                                                                         *)
(* Redis itself is external: INCR creates a missing counter without expiry *)
(* and keeps the expiry of an existing one; a counter whose time to live   *)
(* runs out disappears.                                                    *)
(***************************************************************************)
EXTENDS RateLimit, FiniteSetsExt, Functions

CONSTANTS
    Handler,            \* concurrent checks, of all gateway processes
    MaxCount,           \* bound: INCRs of one counter
    MaxFaults           \* bound: failed commands and vanished handlers

ASSUME BoundsAssumption == MaxCount \in Nat /\ MaxFaults \in Nat /\ limit < MaxCount

VARIABLES
    counter,            \* {} or the one counter, with its time to live if any
    command,            \* command[h]: the next command of h and the count it got
    faults,             \* how many faults have happened
    counted,            \* auxiliary: counted[i] INCRs within the limit i ticks ago
    orphan              \* auxiliary: a fault hit the first check of this counter

redisVars == <<counter, command, faults, counted, orphan>>

\* window.as_secs().max(1)
window_secs == IF window > 1 THEN window ELSE 1
RedisSlots == 0 .. window_secs

Idle == [pc |-> "idle", count |-> 0]

InitRedis ==
    /\ counter = {}
    /\ command = [h \in Handler |-> Idle]
    /\ faults = 0
    /\ counted = [i \in RedisSlots |-> 0]
    /\ orphan = FALSE

\* Redis: the counter after INCR, and after EXPIRE.
INCR == IF counter = {} THEN {[count |-> 1, ttl |-> {}]}
        ELSE {[k EXCEPT !.count = @ + 1] : k \in counter}
\* Mutants of EXPIRE: a time to live in milliseconds; one tick too short.
EXPIRE_Millis == {[k EXCEPT !.ttl = {window_secs * 1000}] : k \in counter}
EXPIRE_Short == {[k EXCEPT !.ttl = {window_secs - 1}] : k \in counter}

EXPIRE == {[k EXCEPT !.ttl = {window_secs}] : k \in counter}
Count(c) == Max({k.count : k \in c} \cup {0})

Fault == faults < MaxFaults /\ faults' = faults + 1

\* Mutant of Incr: takes the count for the value before the increment.
Incr_ExpiresOnZero(h) ==
    /\ command[h] = Idle
    /\ Count(counter) < MaxCount
    /\ counter' = INCR
    /\ LET count == Count(INCR)
       IN  /\ command' = [command EXCEPT ![h] =
                 [pc |-> IF count = 0 THEN "expire" ELSE "ttl", count |-> count]]
           /\ counted' = IF count <= limit THEN [counted EXCEPT ![0] = @ + 1] ELSE counted
    /\ UNCHANGED <<faults, orphan>>

\* INCR answers; the first hit of a window goes on to set the expiry.  The count
\* is compared as it is: `as u32` makes no difference below 2^32.
Incr(h) ==
    /\ command[h] = Idle
    /\ Count(counter) < MaxCount
    /\ counter' = INCR
    /\ LET count == Count(INCR)
       IN  /\ command' = [command EXCEPT ![h] =
                 [pc |-> IF count = 1 THEN "expire" ELSE "ttl", count |-> count]]
           /\ counted' = IF count <= limit THEN [counted EXCEPT ![0] = @ + 1] ELSE counted
    /\ UNCHANGED <<faults, orphan>>

\* INCR fails: the request is let through ("failing open").  Redis may have
\* executed the command all the same.
IncrFails(h, done) ==
    /\ command[h] = Idle
    /\ Fault
    /\ Count(counter) < MaxCount
    /\ counter' = IF done THEN INCR ELSE counter
    /\ orphan' = (orphan \/ (done /\ counter = {}))
    /\ UNCHANGED <<command, counted>>

\* EXPIRE is executed; whether its answer arrives makes no difference.
Expire(h) ==
    /\ command[h].pc = "expire"
    /\ counter' = EXPIRE
    /\ command' = [command EXCEPT ![h].pc = "ttl"]
    /\ UNCHANGED <<faults, counted, orphan>>

\* EXPIRE does not reach Redis and the error is ignored.
ExpireFails(h) ==
    /\ command[h].pc = "expire"
    /\ Fault
    /\ command' = [command EXCEPT ![h].pc = "ttl"]
    /\ orphan' = TRUE
    /\ UNCHANGED <<counter, counted>>

\* TTL only fills the reset header; the decision follows from the count.
Ttl(h) ==
    /\ command[h].pc = "ttl"
    /\ command' = [command EXCEPT ![h] = Idle]
    /\ UNCHANGED <<counter, faults, counted, orphan>>

\* The handler is dropped while it waits for EXPIRE to be sent or for TTL.
Vanish(h) ==
    /\ command[h] # Idle
    /\ Fault
    /\ command' = [command EXCEPT ![h] = Idle]
    /\ orphan' = (orphan \/ command[h].pc = "expire")
    /\ UNCHANGED <<counter, counted>>

\* A tick of time; a counter that reaches its time to live is deleted.
RedisTick ==
    /\ counter' = {[k EXCEPT !.ttl = {t - 1 : t \in k.ttl}] : k \in {k \in counter : 1 \notin k.ttl}}
    /\ counted' = [i \in RedisSlots |-> IF i = 0 THEN 0 ELSE counted[i - 1]]
    /\ UNCHANGED <<command, faults, orphan>>

NextRedis ==
    \/ \E h \in Handler :
         \/ Incr(h)
         \/ \E done \in BOOLEAN : IncrFails(h, done)
         \/ Expire(h)
         \/ ExpireFails(h)
         \/ Ttl(h)
         \/ Vanish(h)
    \/ RedisTick

SpecRedis == InitRedis /\ [][NextRedis]_redisVars

\* Time passes and Redis answers the commands it is sent.
FairSpecRedis ==
    /\ SpecRedis
    /\ WF_redisVars(RedisTick)
    /\ \A h \in Handler : WF_redisVars(Expire(h)) /\ WF_redisVars(Ttl(h))

-----------------------------------------------------------------------------
\* The counter, the checks in progress and the fault count have their types.
RedisTypeOK ==
    /\ counter = {} \/ \E c \in 1 .. MaxCount, t \in {{}} \cup {{t} : t \in 1 .. window_secs} :
                          counter = {[count |-> c, ttl |-> t]}
    /\ command \in [Handler -> [pc : {"idle", "expire", "ttl"}, count : 0 .. MaxCount]]
    /\ faults \in 0 .. MaxFaults
    /\ orphan \in BOOLEAN

\* All gateway processes together let at most two windows' worth of counted
\* requests through in any period as long as a window, faults or not: a late
\* EXPIRE only lengthens a window.
RedisBurstBounded == SumFunction(counted) <= limit + limit

\* A counter without expiry is one whose first check is about to set it, or one
\* whose first check met a fault: no interleaving of the processes' commands
\* loses the expiry.
ExpiryLostOnlyByFault ==
    \A k \in counter :
        k.ttl = {} => orphan \/ \E h \in Handler : command[h].pc = "expire"

\* The next INCR is over the limit.
Blocked == Count(counter) >= limit

\* A key over its limit is let through again, as long as no fault orphaned its
\* counter.
BlockEnds == Blocked ~> (~Blocked \/ orphan)

\* What docs/design-decisions.md says: Redis failures fail open, and a blip of
\* Redis cannot take down traffic.  A key over its limit is let through again.
BlipIsTransient == Blocked ~> ~Blocked
=============================================================================
