------------------------------- MODULE Judge -------------------------------
(***************************************************************************)
(* How Game::validate_code_test (game.rs) reads the answer of the sandbox, *)
(* once for the public tests of a task and once for its private ones.      *)
(*                                                                         *)
(* Of an output only this is kept: whether it is, with one newline at its  *)
(* end taken off, the expected output of the test it is compared with.  An *)
(* answer is the sequence of these, in the order of stdout.                *)
(***************************************************************************)
EXTENDS Naturals, FiniteSets, Sequences

\* The indices pushed to public_finished_tests or private_finished_tests.
Finished(out) == {i \in 1..Len(out) : out[i]}

\* The loop over stdout fails with "task response length mismatch" at the
\* first output that has no test; after it the finished tests are counted.
\* (FewerIsFine compares their number with that of the outputs.)
FewerIsFine(out, n) ==
  IF Len(out) > n THEN "mismatch"
  ELSE IF Cardinality(Finished(out)) = Len(out) THEN "passed" ELSE "failed"
Verdict(out, n) ==
  IF Len(out) > n THEN "mismatch"
  ELSE IF Cardinality(Finished(out)) = n THEN "passed" ELSE "failed"

\* What the verdict should say: an output for every test and no other, each
\* of them the expected one.
AllMatch(out, n) == Len(out) = n /\ \A i \in 1..n : out[i]

\* The answers of a sandbox that returns at most m outputs.
Answers(m) == UNION {[1..n -> BOOLEAN] : n \in 0..m}
=============================================================================
