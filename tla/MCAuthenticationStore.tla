----------------------- MODULE MCAuthenticationStore -----------------------
(* Model values for TLC.                                                   *)
EXTENDS AuthenticationStore

CONSTANTS alice, bob, events

MCUser == {alice, bob}
MCPage == {Home, events}
=============================================================================
