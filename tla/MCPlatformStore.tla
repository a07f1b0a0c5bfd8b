-------------------------- MODULE MCPlatformStore --------------------------
(***************************************************************************)
(* PlatformStore for TLC: a subject, one that extends it by a letter, one  *)
(* that extends it by a slash, and two genealogies.                        *)
(***************************************************************************)
EXTENDS PlatformStore

MCChars == {"/", "b", "c", "e", "g", "h", "m", "n", "o", "p", "r", "s", "t", "u"}
MCSubjects == {<<"s">>, <<"s", "t">>, <<"s", "/", "t">>}
MCGids == {<<"g">>, <<"h">>}
=============================================================================
