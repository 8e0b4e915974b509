----------------------------- MODULE ClientProofs -----------------------------
(***************************************************************************)
(* For every delay, every line generator and every bound of the clock: the *)
(* time a client is recorded with is real, loses no more than one delay of *)
(* its waits, and lines keep their distance and look like no banner.       *)
(***************************************************************************)
EXTENDS ClientSession, TLAPS

\* The facts about the constants that the arithmetic needs.
LEMMA DelayIsPositive == Delay \in Nat /\ Delay > 0 /\ MaxTime \in Nat
  BY ClientConstants

-----------------------------------------------------------------------------
(* The clock *)

\* While a session runs, what has been credited lies before the last line, that before the
\* wait, and that before the clock; what of the waits is not credited was idle time.
Accounted ==
    /\ timeSpent <= sentAt /\ sentAt <= waitStartedAt /\ waitStartedAt <= now
    /\ sendNext = sentAt + Delay
    /\ sentAt <= timeSpent + idle
    /\ now <= sendNext + idle
    /\ now <= timeSpent + idle + Delay
    /\ phase = "sending" => now >= sendNext

Clocks ==
    /\ now \in Nat /\ sendNext \in Nat /\ waitStartedAt \in Nat
    /\ timeSpent \in Nat /\ idle \in Nat /\ sentAt \in Nat
    /\ phase \in {"waiting", "sending", "ended"}
    /\ epoll \in BOOLEAN /\ cancelled \in BOOLEAN

ClockInv ==
    /\ Clocks
    /\ phase # "ended" => Accounted
    /\ TimeSpentIsReal
    /\ AtMostOneDelayLost

\* The first wait begins with nothing credited and nothing lost.
LEMMA ClockInit == ClientInit => ClockInv
<1> SUFFICES ASSUME ClientInit PROVE ClockInv
  OBVIOUS
<1>1. Clocks
  BY DelayIsPositive DEF ClientInit, Clocks
<1>2. Accounted /\ TimeSpentIsReal /\ AtMostOneDelayLost
  BY DelayIsPositive DEF ClientInit, Accounted, TimeSpentIsReal, AtMostOneDelayLost
<1> QED
  BY <1>1, <1>2 DEF ClockInv

\* Every way a wait or a line ends keeps the account of the time.
LEMMA ClockStep == ClockInv /\ [ClientNext]_clientVars => ClockInv'
<1> SUFFICES ASSUME ClockInv, [ClientNext]_clientVars PROVE ClockInv'
  OBVIOUS
<1> USE DelayIsPositive
<1> USE DEF ClockInv, Clocks, Accounted, TimeSpentIsReal, AtMostOneDelayLost, recordVars, waitVars
<1>1. CASE Cancelled
  BY <1>1 DEF Cancelled, End
<1>2. CASE PeerGone
  BY <1>2 DEF PeerGone, AwaitsEpoll, Awaits, End
<1>3. CASE SpuriousWakeup
  BY <1>3 DEF SpuriousWakeup, AwaitsEpoll, Awaits, BeginLine
<1>4. CASE SleepEnds
  BY <1>4 DEF SleepEnds, Awaits, BeginLine
<1>5. CASE LineSent
  BY <1>5 DEF LineSent, Awaits
<1>6. CASE SendFails
  BY <1>6 DEF SendFails, Awaits, End
<1>7. CASE Tick
  BY <1>7 DEF Tick
<1>8. CASE PeerChanges \/ Cancel
  BY <1>8 DEF PeerChanges, Cancel
<1>9. CASE UNCHANGED clientVars
  BY <1>9 DEF clientVars
<1> QED
  BY <1>1, <1>2, <1>3, <1>4, <1>5, <1>6, <1>7, <1>8, <1>9 DEF ClientNext

\* The account of the time holds in every reachable state (client.rs:144-216).
THEOREM ClockHolds == ClientSpec => []ClockInv
<1> QED
  BY ClockInit, ClockStep, PTL DEF ClientSpec

\* The recorded time never exceeds the time the client was connected.
THEOREM NeverOvercounted == ClientSpec => []TimeSpentIsReal
<1>1. ClockInv => TimeSpentIsReal
  BY DEF ClockInv
<1> QED
  BY <1>1, ClockHolds, PTL

\* However the waits end, no more than one delay of them is lost.
THEOREM NeverUndercounted == ClientSpec => []AtMostOneDelayLost
<1>1. ClockInv => AtMostOneDelayLost
  BY DEF ClockInv
<1> QED
  BY <1>1, ClockHolds, PTL

\* A line is never begun before a delay has passed since the last one was finished.
THEOREM LinesKeepTheirDistance == ClientSpec => []LinesAreSpaced
<1>1. ClockInv => LinesAreSpaced
  BY DelayIsPositive DEF ClockInv, Clocks, Accounted, LinesAreSpaced
<1> QED
  BY <1>1, ClockHolds, PTL

-----------------------------------------------------------------------------
(* The lines *)

\* Whatever the generator comes up with, randline_from makes a line of the configured
\* length of it that does not begin like the banner.
LEMMA RandomLineIsNoBanner ==
    ASSUME NEW made \in Lines
    PROVE  /\ made \in Seq(Printable \cup {CR, LF})
           /\ ~BeginsLikeBanner(made) /\ Len(made) \in 3..MaxLineLength
<1>1. PICK drawn \in Draws : made = RandomLine(drawn)
  BY DEF Lines
<1>2. PICK n \in 1..MaxLineLength - 2 : drawn \in [1..n -> Printable]
  BY LineConstants
<1> DEFINE whole == drawn \o <<CR, LF>>
<1> n \in Nat /\ MaxLineLength \in Nat
  BY <1>2, LineConstants
<1>3. drawn \in Seq(Printable \cup {CR, LF}) /\ Len(drawn) = n
  BY <1>2
<1>4. whole \in Seq(Printable \cup {CR, LF}) /\ Len(whole) = n + 2
  BY <1>3
<1> HIDE DEF whole
<1>5. Len(whole) \in 3..MaxLineLength
  BY <1>2, <1>4
<1>6. CASE BeginsLikeBanner(whole)
  <2>1. made = [whole EXCEPT ![1] = "X"]
    BY <1>1, <1>6 DEF RandomLine, whole
  <2>2. Len(made) = Len(whole) /\ made[1] = "X"
    BY <2>1, <1>4, <1>5
  <2>3. made \in Seq(Printable \cup {CR, LF})
    BY <2>1, <1>4, LineConstants
  <2>4. ~BeginsLikeBanner(made)
    BY <2>2 DEF BeginsLikeBanner, Banner
  <2> QED
    BY <2>2, <2>3, <2>4, <1>5
<1>7. CASE ~BeginsLikeBanner(whole)
  <2>1. made = whole
    BY <1>1, <1>7 DEF RandomLine, whole
  <2> QED
    BY <2>1, <1>4, <1>5, <1>7
<1> QED
  BY <1>6, <1>7

\* A line that is being sent came from the generator.
LineInv == IF phase = "sending" THEN line \in Lines ELSE line = << >>

\* In every reachable state the line in hand is one randline_from has made.
LEMMA LineHolds == ClientSpec => []LineInv
<1>1. ClientInit => LineInv
  BY DEF ClientInit, LineInv
<1>2. LineInv /\ [ClientNext]_clientVars => LineInv'
  <2> SUFFICES ASSUME LineInv, [ClientNext]_clientVars PROVE LineInv'
    OBVIOUS
  <2>1. CASE SpuriousWakeup \/ SleepEnds
    <3>1. Lines' = Lines
      BY DEF Lines, RandomLine, BeginsLikeBanner, Banner
    <3> QED
      BY <2>1, <3>1 DEF LineInv, SpuriousWakeup, SleepEnds, BeginLine, AwaitsEpoll, Awaits
  <2>2. CASE Cancelled \/ PeerGone \/ SendFails
    BY <2>2 DEF LineInv, Cancelled, PeerGone, SendFails, End
  <2>3. CASE LineSent
    BY <2>3 DEF LineInv, LineSent
  <2>4. CASE Tick \/ PeerChanges \/ Cancel \/ UNCHANGED clientVars
    BY <2>4 DEF LineInv, Tick, PeerChanges, Cancel, clientVars
  <2> QED
    BY <2>1, <2>2, <2>3, <2>4 DEF ClientNext
<1> QED
  BY <1>1, <1>2, PTL DEF ClientSpec

\* No line begins like an SSH banner, and each fits the configured length.
THEOREM NoBannerIsSent == ClientSpec => []LineIsNoBanner
<1>1. LineInv => LineIsNoBanner
  BY RandomLineIsNoBanner DEF LineInv, LineIsNoBanner
<1> QED
  BY <1>1, LineHolds, PTL

-----------------------------------------------------------------------------
(* Types *)

\* What the peer and the bytes sent may be; the other variables are those of the clock.
WireOK == bytesSent \in Nat /\ peer \in {"there", "stalled", "gone"}

\* Every variable of a session has its type in every reachable state.
THEOREM ClientTypeCorrect == ClientSpec => []ClientTypeOK
<1>1. ClientInit => WireOK
  BY DEF ClientInit, WireOK
<1>2. WireOK /\ LineInv /\ [ClientNext]_clientVars => WireOK'
  <2> SUFFICES ASSUME WireOK, LineInv, [ClientNext]_clientVars PROVE WireOK'
    OBVIOUS
  <2>1. CASE LineSent
    <3>1. line \in Seq(Printable \cup {CR, LF})
      BY <2>1, RandomLineIsNoBanner DEF LineInv, LineSent, Awaits
    <3>2. Len(line) \in Nat
      BY <3>1
    <3> QED
      BY <2>1, <3>2 DEF WireOK, LineSent, Sendline
  <2>2. CASE Cancelled \/ PeerGone \/ SendFails
    BY <2>2 DEF WireOK, Cancelled, PeerGone, SendFails, End
  <2>3. CASE SpuriousWakeup \/ SleepEnds
    BY <2>3 DEF WireOK, SpuriousWakeup, SleepEnds, recordVars
  <2>4. CASE Tick \/ PeerChanges \/ Cancel \/ UNCHANGED clientVars
    BY <2>4 DEF WireOK, Tick, PeerChanges, Cancel, clientVars, recordVars
  <2> QED
    BY <2>1, <2>2, <2>3, <2>4 DEF ClientNext
<1>3. ClockInv /\ LineInv /\ WireOK => ClientTypeOK
  <2> SUFFICES ASSUME ClockInv, LineInv, WireOK PROVE ClientTypeOK
    OBVIOUS
  <2>1. line \in Seq(Printable \cup {CR, LF})
    <3>1. CASE phase = "sending"
      BY <3>1, RandomLineIsNoBanner DEF LineInv
    <3>2. CASE phase # "sending"
      <4>1. line = << >>
        BY <3>2 DEF LineInv
      <4> QED
        BY <4>1
    <3> QED
      BY <3>1, <3>2
  <2>2. {epoll, cancelled} \subseteq BOOLEAN
    BY DEF ClockInv, Clocks
  <2> QED
    BY <2>1, <2>2 DEF ClockInv, Clocks, WireOK, ClientTypeOK
<1> QED
  BY <1>1, <1>2, <1>3, ClockHolds, LineHolds, PTL DEF ClientSpec
=============================================================================
