-------------------------- MODULE DevelopmentLease --------------------------
(***************************************************************************)
(* bridge/development/connector.go: the heartbeat goroutine of one         *)
(* connection.  It pings the relay, renews the session before its lease    *)
(* ends, and closes the connection when it cannot.                         *)
(*                                                                         *)
(* Time is discrete.  Timers and context deadlines fire on time: the clock *)
(* does not pass the moment an operation must have ended by.               *)
(***************************************************************************)
EXTENDS Integers

CONSTANTS
    Heartbeat,      \* 15 s, between pings and before a failed renewal is retried
    PingTimeout,    \* 5 s
    RefreshTimeout, \* 10 s
    WriteTimeout,   \* 10 s
    RefreshPeriod,  \* one minute
    MaxLease,       \* five minutes
    Handshake,      \* 20 s, to dial and to wait for the ready frame
    MaxTime         \* the clock of a behaviour stops here

ASSUME LeaseAssumption ==
    /\ Heartbeat \in Nat \ {0} /\ PingTimeout \in Nat \ {0}
    /\ RefreshTimeout \in Nat \ {0} /\ WriteTimeout \in Nat \ {0}
    /\ RefreshPeriod \in Nat \ {0} /\ MaxLease \in Nat \ {0}
    /\ Handshake \in Nat /\ MaxTime \in Nat

VARIABLES
    now,          \* the clock
    expiresAt,    \* session.ExpiresAt
    nextRefresh,
    timer,        \* when the timer fires
    pc,           \* what the goroutine does
    deadline,     \* when the context of its operation is done
    next          \* the lease of the session it has just been given

leaseVars == <<now, expiresAt, nextRefresh, timer, pc, deadline, next>>

LeaseTypeOK ==
    /\ now \in Nat /\ expiresAt \in Nat /\ next \in Nat
    /\ nextRefresh \in Int /\ timer \in Int /\ deadline \in Int
    /\ pc \in {"wait", "ping", "refresh", "write", "ended"}

-----------------------------------------------------------------------------
Least(a, b) == IF a <= b THEN a ELSE b

\* Half the remaining lease; Go's division truncates, but an expired session
\* is refreshed in the past either way.
SessionRefreshAt(expires, at) == at + Least(RefreshPeriod, (expires - at) \div 2)

ValidLease(expires, at) == at < expires /\ expires <= at + MaxLease

\* timer.Reset(min(15 s, time.Until(refresh)))
ResetTimer(refresh, at) == timer' = at + Least(Heartbeat, refresh - at)

\* The session was valid before the handshake.
LeaseInit ==
    /\ now = Handshake + 1
    /\ expiresAt \in 2..(now + MaxLease)
    /\ nextRefresh = SessionRefreshAt(expiresAt, now)
    /\ timer = now + Least(Heartbeat, nextRefresh - now)
    /\ pc = "wait"
    /\ deadline = 0
    /\ next = 0

\* The timer fires: a ping within its timeout and the lease.
StartPing ==
    /\ pc = "wait" /\ timer <= now
    /\ pc' = "ping"
    /\ deadline' = Least(expiresAt, now + PingTimeout)
    /\ UNCHANGED <<now, expiresAt, nextRefresh, timer, next>>

\* The pong arrives: wait on, or renew within the same lease.
Pong ==
    /\ pc = "ping" /\ now < deadline
    /\ IF now < nextRefresh
       THEN /\ pc' = "wait"
            /\ ResetTimer(nextRefresh, now)
            /\ UNCHANGED deadline
       ELSE /\ pc' = "refresh"
            /\ deadline' = Least(expiresAt, now + RefreshTimeout)
            /\ UNCHANGED timer
    /\ UNCHANGED <<now, expiresAt, nextRefresh, next>>

\* The goroutine returns: the connection is closed, its context cancelled.
End ==
    /\ pc' = "ended"
    /\ UNCHANGED <<now, expiresAt, nextRefresh, timer, deadline, next>>

\* The ping fails, at the latest when its context is done.
PingFails == pc = "ping" /\ End

\* A session is given.  One that is not valid or is for another connection
\* ends this one.
Refreshed(expires, same) ==
    /\ pc = "refresh" /\ now <= deadline
    /\ IF ValidLease(expires, now) /\ same
       THEN /\ pc' = "write"
            /\ next' = expires
            /\ deadline' = now + WriteTimeout
            /\ UNCHANGED <<now, expiresAt, nextRefresh, timer>>
       ELSE End

\* Mutant: a renewal that fails is always tried again.
RefreshFailsRetries(permanent) ==
    /\ pc = "refresh"
    /\ pc' = "wait"
    /\ nextRefresh' = now + Heartbeat
    /\ timer' = now + Heartbeat
    /\ UNCHANGED <<now, expiresAt, deadline, next>>

\* The provider fails: the goroutine gives up when the failure is permanent or
\* the lease ends within a heartbeat, else it tries again after one.
RefreshFails(permanent) ==
    /\ pc = "refresh"
    /\ IF expiresAt <= now + Heartbeat \/ permanent
       THEN End
       ELSE /\ pc' = "wait"
            /\ nextRefresh' = now + Heartbeat
            /\ timer' = now + Heartbeat
            /\ UNCHANGED <<now, expiresAt, deadline, next>>

\* The authenticate frame is written: the new session takes effect.
Authenticated ==
    /\ pc = "write" /\ now <= deadline
    /\ pc' = "wait"
    /\ expiresAt' = next
    /\ nextRefresh' = SessionRefreshAt(next, now)
    /\ ResetTimer(nextRefresh', now)
    /\ UNCHANGED <<now, deadline, next>>

AuthenticateFails == pc = "write" /\ End

\* The clock waits for a timer that is due and for a context that is done.
Tick ==
    /\ now < MaxTime
    /\ pc = "wait" => now < timer
    /\ pc \in {"ping", "refresh", "write"} => now < deadline
    /\ now' = now + 1
    /\ UNCHANGED <<expiresAt, nextRefresh, timer, pc, deadline, next>>

LeaseNext ==
    \/ StartPing \/ Pong \/ PingFails
    \/ \E expires \in 0..(MaxTime + MaxLease), same \in BOOLEAN : Refreshed(expires, same)
    \/ \E permanent \in BOOLEAN : RefreshFails(permanent)
    \/ Authenticated \/ AuthenticateFails
    \/ Tick

LeaseSpec == LeaseInit /\ [][LeaseNext]_leaseVars

-----------------------------------------------------------------------------
\* The connection does not outlive its lease by more than the write of one
\* authenticate frame: past the end of the lease the goroutine never waits or
\* renews, a ping is due at once, and a ping fails at once, however the pings,
\* the failed renewals, a slow handshake and the lengths of the leases fall
\* together.
LeaseBound ==
    expiresAt < now =>
        /\ pc = "wait" => timer <= now
        /\ pc = "ping" => deadline <= now
        /\ pc # "refresh"
        /\ pc = "write" => now <= expiresAt + WriteTimeout

\* The inductive invariant behind LeaseBound: no timer and no deadline lies
\* beyond the lease, unless it is already due.
LeaseInv ==
    /\ pc = "wait" => timer <= expiresAt \/ timer <= now
    /\ pc \in {"wait", "ping"} => nextRefresh <= expiresAt \/ nextRefresh <= now
    /\ pc = "ping" => deadline <= expiresAt
    /\ pc = "refresh" => now <= deadline /\ deadline <= expiresAt
    /\ pc = "write" => now <= deadline /\ deadline <= expiresAt + WriteTimeout

=============================================================================
