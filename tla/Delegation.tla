----------------------------- MODULE Delegation -----------------------------
(***************************************************************************)
(* What delegation promises the parent agent, with no rows, queue or       *)
(* database: a call is opened about a task, runs end well or badly, and    *)
(* the call is closed once, with the text of a run of that task which      *)
(* really ended that way, or with no text at all.                          *)
(***************************************************************************)
CONSTANTS Calls, Tasks, None

VARIABLES phase,  \* "idle", "open" or "closed"
          about,  \* the task of the call
          work,   \* how the run of the call ended: "none", "ok" or "broke"
          reply   \* what the call returned: a kind, and the call whose text it is

dvars == <<phase, about, work, reply>>

NoReply == [kind |-> "none", of |-> None]

Init ==
  /\ phase = [c \in Calls |-> "idle"]
  /\ about = [c \in Calls |-> None]
  /\ work = [c \in Calls |-> "none"]
  /\ reply = [c \in Calls |-> NoReply]

Open(c, t) ==
  /\ phase[c] = "idle"
  /\ phase' = [phase EXCEPT ![c] = "open"]
  /\ about' = [about EXCEPT ![c] = t]
  /\ UNCHANGED <<work, reply>>

\* A run may end after its call was closed.
EndRun(c, how) ==
  /\ phase[c] # "idle"
  /\ work[c] = "none"
  /\ work' = [work EXCEPT ![c] = how]
  /\ UNCHANGED <<phase, about, reply>>

Close(c, r) ==
  /\ phase[c] = "open"
  /\ phase' = [phase EXCEPT ![c] = "closed"]
  /\ reply' = [reply EXCEPT ![c] = r]
  /\ UNCHANGED <<about, work>>

CloseWithText(c, d) ==
  /\ about[d] = about[c]
  /\ \/ work[d] = "ok"    /\ Close(c, [kind |-> "result", of |-> d])
     \/ work[d] = "broke" /\ Close(c, [kind |-> "failed", of |-> d])

CloseWithoutText(c) == Close(c, [kind |-> "nothing", of |-> None])

Next ==
  \E c \in Calls :
    \/ \E t \in Tasks : Open(c, t)
    \/ \E how \in {"ok", "broke"} : EndRun(c, how)
    \/ \E d \in Calls : CloseWithText(c, d)
    \/ CloseWithoutText(c)

Spec == Init /\ [][Next]_dvars
=============================================================================
