----------------------------- MODULE MCTestRunner -----------------------------
(* The bounds are the constants of TestRunner, given in the .cfg files.      *)
EXTENDS TestRunner
=============================================================================
