----------------------------- MODULE Assertions -----------------------------
(* throws, doesNotThrow, rejects and doesNotReject of lib/assert.js: what a test    *)
(* learns when what it runs returns, throws or rejects.                             *)
EXTENDS Integers

VARIABLES tested,        \* what the function under test does
          expected    \* what the assertion is given to match the error with

assertVars == <<tested, expected>>

\* `fits`: the pattern, the keys or the class of the error are as expected.  A class
\* that the error is not of is called with it, as a validator is, and answers this:
Answers == {"true", "false", "undefined", "an object", "throws"}
Expectations == [kind : {"none", "regexp", "keys"}, fits : BOOLEAN, answer : {"undefined"}]
                \cup [kind : {"class"}, fits : BOOLEAN, answer : Answers]
                \cup [kind : {"validator"}, fits : {FALSE}, answer : Answers]
Runs == {"returns", "throws", "fulfils", "rejects"}

AssertIdle == tested = "returns" /\ expected = [kind |-> "none", fits |-> FALSE, answer |-> "undefined"]
AssertInit == tested \in Runs /\ expected \in Expectations

\* matchError: null ("match"), a reason, or what the validator throws.
matchError(e) ==
    CASE e.kind = "none" -> "match"
      [] e.kind \in {"regexp", "keys"} -> IF e.fits THEN "match" ELSE "reason"
      [] e.kind = "class" /\ e.fits -> "match"
      [] e.kind = "class" /\ ~e.fits ->
            CASE e.answer = "throws" -> "throws"
              [] e.answer \in {"false", "undefined"} -> "reason"
              [] OTHER -> "match"
      [] e.kind = "validator" ->
            IF e.answer = "throws" THEN "throws" ELSE IF e.answer = "true" THEN "match" ELSE "reason"

\* How an assertion ends: it passes, fails with an AssertionError, lets the error of
\* the function out, or that of a validator.
Verdict(e) == IF matchError(e) = "throws" THEN "validator's" ELSE matchError(e)
throws(r, e) ==
    IF r # "throws" THEN "fails"
    ELSE CASE Verdict(e) = "match" -> "passes" [] Verdict(e) = "reason" -> "fails" [] OTHER -> Verdict(e)
doesNotThrow(r, e) ==
    IF r # "throws" THEN "passes"
    ELSE CASE Verdict(e) = "match" -> "fails" [] Verdict(e) = "reason" -> "the error" [] OTHER -> Verdict(e)
\* The promises: a function that throws has not rejected.
rejects(r, e) ==
    IF r # "rejects" THEN "fails"
    ELSE CASE Verdict(e) = "match" -> "passes" [] Verdict(e) = "reason" -> "fails" [] OTHER -> Verdict(e)
doesNotReject(r, e) ==
    IF r = "throws" THEN "the error"
    ELSE IF r # "rejects" THEN "passes"
    ELSE CASE Verdict(e) = "match" -> "fails" [] Verdict(e) = "reason" -> "the error" [] OTHER -> Verdict(e)
-----------------------------------------------------------------------------
\* What an expectation asks of an error.
Meets(e) == e.kind = "none" \/ e.fits \/ (e.kind \in {"class", "validator"} /\ e.answer = "true")

\* An error that is not as expected is never taken for it - by a class whose call does
\* not answer an object - and rejecting is asserted as throwing is.
ExpectationsHold ==
    (expected.answer # "an object" \/ expected.kind # "class") =>
        /\ throws(tested, expected) = "passes" <=> tested = "throws" /\ Meets(expected)
        /\ doesNotThrow(tested, expected) = "fails" <=> throws(tested, expected) = "passes"
        /\ rejects(tested, expected) = "passes" <=> tested = "rejects" /\ Meets(expected)
        /\ doesNotReject(tested, expected) = "fails" <=> rejects(tested, expected) = "passes"
        /\ rejects("rejects", expected) = throws("throws", expected)
        /\ doesNotReject("rejects", expected) = doesNotThrow("throws", expected)

\* Of an expected object: "a test asserting a specific `code` passed against ANY error -
\* including the wrong one" (assert.js:212) is what matchError is for.  A class whose call
\* answers an object, as TypeError's does, still passes against any error.
OnlyTheExpected == throws(tested, expected) = "passes" => Meets(expected)
AssertNext == UNCHANGED assertVars
=============================================================================
