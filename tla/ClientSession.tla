---------------------------- MODULE ClientSession ----------------------------
(***************************************************************************)
(* One trapped client in time: listen_forever waits for the delay, sends a *)
(* line, and waits again, until the peer is gone or the token cancelled.   *)
(* The time the client is held is added up from the waits.                 *)
(*                                                                         *)
(* The clock advances at any point where the code awaits: a task may be    *)
(* late, a write may take its time.  The epoll may wake the task without a *)
(* reason, or fail.                                                        *)
(***************************************************************************)
EXTENDS RandLine

CONSTANTS
    Delay,      \* config.delay
    MaxTime     \* bound: no line is finished after this time

ASSUME ClientConstants == Delay \in Nat \ {0} /\ MaxTime \in Nat

VARIABLES
    now,            \* time since the client connected
    phase,          \* waiting, sending or ended
    epoll,          \* whether the epoll could be set up
    sendNext, waitStartedAt, timeSpent, bytesSent,
    line,           \* the line being sent
    peer,           \* there, stalled (it does not read) or gone
    cancelled,      \* the token
    idle,           \* time in which the task was late or writing
    sentAt          \* when the last line was finished

recordVars == <<timeSpent, bytesSent>>
waitVars == <<sendNext, waitStartedAt, sentAt>>
clientVars == <<now, phase, epoll, recordVars, waitVars, line, peer, cancelled, idle>>

ClientInit ==
    /\ now = 0
    /\ phase = "waiting"
    /\ epoll \in BOOLEAN
    /\ sendNext = Delay
    /\ waitStartedAt = 0
    /\ timeSpent = 0
    /\ bytesSent = 0
    /\ line = << >>
    /\ peer = "there"
    /\ cancelled = FALSE
    /\ idle = 0
    /\ sentAt = 0

-----------------------------------------------------------------------------
(* The task *)

\* What the task does where it awaits: the selects are biased towards the token.
Awaits(p) == phase = p /\ ~cancelled

\* await_async_epfd: without an epoll only the sleep ends the wait.
AwaitsEpoll == Awaits("waiting") /\ epoll

BeginLine ==
    /\ phase' = "sending"
    /\ line' \in Lines

End ==
    /\ phase' = "ended"
    /\ line' = << >>
    /\ UNCHANGED <<now, epoll, bytesSent, waitVars, peer, cancelled, idle>>

\* Mutant: the token is looked at while waiting only.
CancelledWhileWaiting ==
    /\ phase = "waiting"
    /\ cancelled
    /\ End
    /\ UNCHANGED timeSpent

Cancelled ==
    /\ phase \in {"waiting", "sending"}
    /\ cancelled
    /\ End
    /\ UNCHANGED timeSpent

\* Mutant: the whole time since the line before is credited, late or not.
PeerGoneFromStart ==
    /\ AwaitsEpoll
    /\ peer = "gone"
    /\ timeSpent' = timeSpent + (now - sentAt) + Delay
    /\ End

\* The epoll reports that the peer is gone: the wait so far counts.
PeerGone ==
    /\ AwaitsEpoll
    /\ peer = "gone"
    /\ timeSpent' = timeSpent + (now - waitStartedAt)
    /\ End

\* Mutant: the line is sent without another look at the clock.
SpuriousWakeupSends ==
    /\ AwaitsEpoll
    /\ waitStartedAt' = now
    /\ BeginLine
    /\ UNCHANGED <<now, epoll, recordVars, sendNext, sentAt, peer, cancelled, idle>>

\* The epoll fires and has nothing to report, or fails: the loop starts over.
SpuriousWakeup ==
    /\ AwaitsEpoll
    /\ waitStartedAt' = now
    /\ IF now < sendNext THEN UNCHANGED <<phase, line>> ELSE BeginLine
    /\ UNCHANGED <<now, epoll, recordVars, sendNext, sentAt, peer, cancelled, idle>>

SleepEnds ==
    /\ Awaits("waiting")
    /\ now >= sendNext
    /\ BeginLine
    /\ UNCHANGED <<now, epoll, recordVars, waitVars, peer, cancelled, idle>>

\* sendline: all of the line is taken, or nothing when it would block.
Sendline(bytes) == {Len(bytes), 0}

\* Mutant: the next line is due a delay after the one before was.
LineSentOnSchedule ==
    /\ Awaits("sending")
    /\ now < MaxTime
    /\ peer # "stalled"
    /\ timeSpent' = timeSpent + Delay
    /\ \E sent \in Sendline(line) : bytesSent' = bytesSent + sent
    /\ sendNext' = sendNext + Delay
    /\ waitStartedAt' = now
    /\ sentAt' = now
    /\ phase' = "waiting"
    /\ line' = << >>
    /\ UNCHANGED <<now, epoll, peer, cancelled, idle>>

\* Mutant: the wait before a line is only counted when there is an epoll.
LineSentUncounted ==
    /\ Awaits("sending")
    /\ now < MaxTime
    /\ peer # "stalled"
    /\ timeSpent' = IF epoll THEN timeSpent + Delay ELSE timeSpent
    /\ \E sent \in Sendline(line) : bytesSent' = bytesSent + sent
    /\ sendNext' = now + Delay
    /\ waitStartedAt' = now
    /\ sentAt' = now
    /\ phase' = "waiting"
    /\ line' = << >>
    /\ UNCHANGED <<now, epoll, peer, cancelled, idle>>

\* The line is sent: the whole delay counts, and the next one begins now.
LineSent ==
    /\ Awaits("sending")
    /\ now < MaxTime
    /\ peer # "stalled"
    /\ timeSpent' = timeSpent + Delay
    /\ \E sent \in Sendline(line) : bytesSent' = bytesSent + sent
    /\ sendNext' = now + Delay
    /\ waitStartedAt' = now
    /\ sentAt' = now
    /\ phase' = "waiting"
    /\ line' = << >>
    /\ UNCHANGED <<now, epoll, peer, cancelled, idle>>

\* Mutant: an error in sending is tried again, like a full buffer.
SendFailsRetried ==
    /\ Awaits("sending")
    /\ peer = "gone"
    /\ UNCHANGED clientVars

\* The peer turns out to be gone: the wait counts if the epoll watched it.
SendFails ==
    /\ Awaits("sending")
    /\ peer = "gone"
    /\ timeSpent' = IF epoll THEN timeSpent + Delay ELSE timeSpent
    /\ End

-----------------------------------------------------------------------------
(* The world *)

\* Time passes; it is idle where it is beyond the end of a wait.
Tick ==
    /\ phase # "ended"
    /\ now < MaxTime \/ now < sendNext
    /\ now' = now + 1
    /\ idle' = IF now >= sendNext THEN idle + 1 ELSE idle
    /\ UNCHANGED <<phase, epoll, recordVars, waitVars, line, peer, cancelled>>

PeerChanges ==
    /\ phase # "ended"
    /\ peer # "gone"
    /\ peer' \in {"there", "stalled", "gone"} \ {peer}
    /\ UNCHANGED <<now, phase, epoll, recordVars, waitVars, line, cancelled, idle>>

Cancel ==
    /\ phase # "ended"
    /\ ~cancelled
    /\ cancelled' = TRUE
    /\ UNCHANGED <<now, phase, epoll, recordVars, waitVars, line, peer, idle>>

-----------------------------------------------------------------------------
Resume == Cancelled \/ PeerGone \/ SleepEnds \/ SendFails

ClientNext ==
    \/ Cancelled \/ PeerGone \/ SpuriousWakeup \/ SleepEnds \/ LineSent \/ SendFails
    \/ Tick \/ PeerChanges \/ Cancel

\* Time passes, and a task that can go on is polled.  Nothing makes a peer read or leave,
\* and nothing limits the wakeups without a reason.
ClientSpec == ClientInit /\ [][ClientNext]_clientVars
ClientFairSpec == ClientSpec /\ WF_clientVars(Tick) /\ WF_clientVars(Resume)

-----------------------------------------------------------------------------
(* Properties *)

\* Every variable has its type.
ClientTypeOK ==
    /\ {now, sendNext, waitStartedAt, timeSpent, bytesSent, idle, sentAt} \subseteq Nat
    /\ phase \in {"waiting", "sending", "ended"}
    /\ {epoll, cancelled} \subseteq BOOLEAN
    /\ peer \in {"there", "stalled", "gone"}
    /\ line \in Seq(Printable \cup {CR, LF})

\* The time a client is recorded with never exceeds the time it was connected
\* (client.rs:85, "use monotonic time to measure elapsed time of how long client is
\* connected").
TimeSpentIsReal == timeSpent <= now

\* And however the waits are woken, cancelled or cut short, no more than one delay of them
\* goes uncounted (client.rs:155-166, 183, 193-199).
AtMostOneDelayLost == now <= timeSpent + idle + Delay

\* However late a task and however slow a write: a line is never begun before a whole
\* delay has passed since the last one was finished (client.rs:107, 191).
LinesAreSpaced == phase = "sending" => now >= sentAt + Delay

\* No line begins like an SSH banner, and each fits the configured length
\* (line.rs:57, "ensure start doesn't begin with "SSH-"").
LineIsNoBanner ==
    phase = "sending" => ~BeginsLikeBanner(line) /\ Len(line) \in 3..MaxLineLength

\* A peer that is gone is noticed in the end, with the epoll or without it, also when it
\* leaves in the middle of a line (client.rs:60-64, 91-92, 193).
GoneIsNoticed == peer = "gone" ~> phase = "ended"

\* A cancelled token ends the session, even while a peer that does not read holds up a
\* line (client.rs:114, 174).
CancelEndsSession == cancelled ~> phase = "ended"
=============================================================================
