---------------------------- MODULE DownloadBatch ----------------------------
(***************************************************************************)
(* What NetJob promises those who start it: each part is tried until it is *)
(* done, at most Attempts times; when every part is done or given up the   *)
(* job reports once, success exactly if all are done.                      *)
(***************************************************************************)
EXTENDS Naturals, Sequences

CONSTANTS Parts, Attempts

VARIABLES
  tries,     \* how often each part was tried
  verdict,   \* "pending", "done" or "failed" for each part
  reported   \* the results reported so far

vars == <<tries, verdict, reported>>

Init ==
  /\ tries = [i \in Parts |-> 0]
  /\ verdict = [i \in Parts |-> "pending"]
  /\ reported = <<>>

Try(i) ==
  /\ verdict[i] = "pending" /\ tries[i] < Attempts
  /\ tries' = [tries EXCEPT ![i] = @ + 1]
  /\ UNCHANGED <<verdict, reported>>

Settle(i, v) ==
  /\ verdict[i] = "pending"
  /\ IF v = "done" THEN tries[i] > 0 ELSE tries[i] = Attempts
  /\ verdict' = [verdict EXCEPT ![i] = v]
  /\ UNCHANGED <<tries, reported>>

Report ==
  /\ reported = <<>>
  /\ \A i \in Parts : verdict[i] # "pending"
  /\ reported' = << IF \A i \in Parts : verdict[i] = "done"
                    THEN "succeeded" ELSE "failed" >>
  /\ UNCHANGED <<tries, verdict>>

Next ==
  \/ \E i \in Parts : Try(i) \/ Settle(i, "done") \/ Settle(i, "failed")
  \/ Report

Spec == Init /\ [][Next]_vars
=============================================================================
