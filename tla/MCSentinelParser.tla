-------------------------- MODULE MCSentinelParser --------------------------
(***************************************************************************)
(* Module SentinelParser for TLC.  The sentinel overlaps itself, as the    *)
(* real one does, which begins and ends with the same characters.          *)
(***************************************************************************)
EXTENDS SentinelParser

CONSTANTS underscore, letter

MCByte == {underscore, letter, CR, LF}
MCSentinel == <<underscore, letter, underscore>>
=============================================================================
