--------------------------- MODULE MCClientSession ---------------------------
(***************************************************************************)
(* Instances of ClientSession for TLC.                                     *)
(***************************************************************************)
EXTENDS ClientSession

FourBytes == {"S", "H", "-", "X"}

\* Lines that are less than the banner, the banner, and more.
NearTheBanner == {<<"S">>, <<"S", "S", "H">>, <<"S", "S", "H", "-">>,
                  <<"X", "S", "H", "-">>, <<"S", "S", "H", "-", "S">>}
=============================================================================
