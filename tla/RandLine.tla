------------------------------ MODULE RandLine ------------------------------
(***************************************************************************)
(* randline: a line of random printable bytes that ends in CR LF and does  *)
(* not begin like the banner of an SSH server, which would let the client  *)
(* go on with its handshake.                                               *)
(***************************************************************************)
EXTENDS Integers, Sequences

CONSTANTS
    Printable,          \* the random bytes (32..126)
    MaxLineLength,      \* max_line_length
    Draws               \* what the generator may come up with, before the line break

CR == "CR"
LF == "LF"
Banner == <<"S", "S", "H", "-">>

ASSUME LineConstants ==
    /\ {"S", "H", "-", "X"} \subseteq Printable
    /\ CR \notin Printable /\ LF \notin Printable
    /\ MaxLineLength \in Nat /\ MaxLineLength >= 3
    /\ \A drawn \in Draws :
          \E n \in 1..MaxLineLength - 2 : drawn \in [1..n -> Printable]

BeginsLikeBanner(line) ==
    Len(line) >= 4 /\ \A i \in 1..4 : line[i] = Banner[i]

\* Mutant: a line that is the banner and no more is let through.
RandomLineLonger(drawn) ==
    LET line == drawn \o <<CR, LF>>
    IN IF BeginsLikeBanner(line) /\ Len(drawn) > 4 THEN [line EXCEPT ![1] = "X"] ELSE line

\* randline_from: the bytes drawn and a line break, with another first byte if need be.
RandomLine(drawn) ==
    LET line == drawn \o <<CR, LF>>
    IN IF BeginsLikeBanner(line) THEN [line EXCEPT ![1] = "X"] ELSE line

Lines == {RandomLine(drawn) : drawn \in Draws}
=============================================================================
