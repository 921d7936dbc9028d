---------------------------- MODULE PromptLedger ----------------------------
(***************************************************************************)
(* The ledger of prompt requests in the file of a session (prompt-request  *)
(* of the server) and what a runtime decides about a request from the      *)
(* entries it knows. A record is the Started entry of one execution, rt    *)
(* the runtime that wrote it, done once its Completed entry follows.       *)
(***************************************************************************)
EXTENDS FiniteSets

\* Mutant: what was begun and not completed may be tried again
DecideRetry(records, req, pay) ==
  IF \E r \in records : r.req = req /\ r.done THEN "completed" ELSE "begin"

\* Mutant: the input is not compared
DecideAnyInput(records, req, pay) ==
  LET started == {r \in records : r.req = req}
  IN  IF started = {} THEN "begin"
      ELSE IF \A r \in started : r.done THEN "completed" ELSE "inDoubt"

\* A Started entry of another input wins over everything else; two of them,
\* or one without its completion, leave the outcome in doubt.
Decide(records, req, pay) ==
  LET started == {r \in records : r.req = req}
  IN  IF \E r \in started : r.pay # pay THEN "mismatch"
      ELSE IF started = {} THEN "begin"
      ELSE IF Cardinality(started) = 1 /\ \E r \in started : r.done
        THEN "completed"
      ELSE "inDoubt"
=============================================================================
