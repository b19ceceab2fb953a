---------------------------- MODULE SubmissionLog ----------------------------
(***************************************************************************)
(* What a transfer worker promises its callers, with no thread, channel or *)
(* batch in sight: an admission-ordered log of jobs, a submitted prefix    *)
(* that only grows, and a sticky end.  TransferWorker implements it.       *)
(***************************************************************************)
EXTENDS Integers, Sequences

CONSTANTS
  Callers,   \* threads
  Job,       \* what may be admitted: records with a completion `token`
  Tokens     \* the tokens a caller may wait for

VARIABLES
  admitted,   \* jobs in admission order
  done,       \* how many of them, from the front, the native queue has
  ended,      \* nothing more will be submitted
  busy,       \* callers inside a call
  op, mark, value, result   \* per caller: the call, its obligation, its outcome

vars == <<admitted, done, ended, busy, op, mark, value, result>>

\* The prefix a caller waits for.
Covered(c, n) ==
  CASE op[c] = "flush" -> mark[c] <= n
    [] op[c] = "flush_through" ->
         \A i \in 1..Len(admitted) :
           admitted[i].token # 0 /\ admitted[i].token <= value[c] => i <= n
    [] OTHER -> TRUE

Init ==
  /\ admitted = <<>> /\ done = 0 /\ ended = FALSE /\ busy = {}
  /\ op = [c \in Callers |-> "none"]
  /\ mark = [c \in Callers |-> 0] /\ value = [c \in Callers |-> 0]
  /\ result = [c \in Callers |-> "none"]

\* A call begins; it may be refused at once.
Call(c, o, v) ==
  /\ c \notin busy
  /\ op' = [op EXCEPT ![c] = o]
  /\ mark' = [mark EXCEPT ![c] = IF o = "flush" THEN Len(admitted) ELSE 0]
  /\ value' = [value EXCEPT ![c] = v]
  /\ \/ busy' = busy \cup {c} /\ result' = [result EXCEPT ![c] = "none"]
     \/ /\ \E r \in {"Failed", "DeviceLost"} : result' = [result EXCEPT ![c] = r]
        /\ UNCHANGED busy
  /\ UNCHANGED <<admitted, done, ended>>

\* A bundle enters the log whole, or not at all.
Admit(c) ==
  /\ c \in busy /\ op[c] = "submit"
  /\ admitted' \in Seq(Job) /\ Len(admitted') > Len(admitted)
  /\ SubSeq(admitted', 1, Len(admitted)) = admitted
  /\ busy' = busy \ {c} /\ result' = [result EXCEPT ![c] = "Ok"]
  /\ UNCHANGED <<done, ended, op, mark, value>>

\* Only a wait that is covered succeeds.
Succeed(c) ==
  /\ c \in busy /\ op[c] \in {"flush", "flush_through"} /\ Covered(c, done)
  /\ busy' = busy \ {c} /\ result' = [result EXCEPT ![c] = "Ok"]
  /\ UNCHANGED <<admitted, done, ended, op, mark, value>>

\* A call under way fails only when the worker has ended.
Refuse(c) ==
  /\ c \in busy /\ ended
  /\ busy' = busy \ {c}
  /\ \E r \in {"Failed", "DeviceLost"} : result' = [result EXCEPT ![c] = r]
  /\ UNCHANGED <<admitted, done, ended, op, mark, value>>

Progress ==
  /\ ~ended
  /\ \E n \in (done + 1)..Len(admitted) : done' = n
  /\ UNCHANGED <<admitted, ended, busy, op, mark, value, result>>

End ==
  /\ ~ended /\ ended' = TRUE
  /\ UNCHANGED <<admitted, done, busy, op, mark, value, result>>

Next ==
  \/ \E c \in Callers :
       \/ \E o \in {"submit", "flush", "flush_through"}, v \in Tokens \cup {0} : Call(c, o, v)
       \/ Admit(c) \/ Succeed(c) \/ Refuse(c)
  \/ Progress \/ End

Spec == Init /\ [][Next]_vars
=============================================================================
