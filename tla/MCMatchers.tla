----------------------------- MODULE MCMatchers -----------------------------
(***************************************************************************)
(* Model-checking instance of Matchers: two components and inputs of up   *)
(* to three paths of depth up to three, as in the unit tests of            *)
(* matchers.rs (foo/bar/baz, nested prefixes foo and foo/bar/baz).         *)
(***************************************************************************)
EXTENDS Matchers

CONSTANTS foo, bar

\* The components are model values: they differ from each other and from
\* every path.
MCComponents == {foo, bar}

MCMaxDepth == 3

=============================================================================
