--------------------------- MODULE MCMatchersTests ---------------------------
(***************************************************************************)
(* The instance of MCMatchers with the unit tests of matchers.rs.          *)
(***************************************************************************)
EXTENDS MCMatchers, MatchersTests

=============================================================================
