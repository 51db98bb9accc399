---------------------------- MODULE RequestReply ----------------------------
(***************************************************************************)
(* What two pairs of programs promise each client, the named pipe programs *)
(* whatever threads, handles and pipe instances lie behind it, and the     *)
(* broadcast pair with one datagram each way: a run of the client asks at  *)
(* most one question, the answer it gets is the answer to that question,   *)
(* and an answer the server has given is either read by the client or dies *)
(* with it.  A run that fails has never been answered.                     *)
(***************************************************************************)
CONSTANT Clients

VARIABLE phase    \* how far the current run of each client has come

Over == {"idle", "ok", "failed", "killed"}
Underway == {"out", "asked", "answered", "got"}

TypeOK == phase \in [Clients -> Over \cup Underway]

Init == phase = [c \in Clients |-> "idle"]

Become(c, p) == phase' = [phase EXCEPT ![c] = p]

Start(c) == phase[c] \in Over /\ Become(c, "out")
Ask(c) == phase[c] = "out" /\ Become(c, "asked")
Answer(c) == phase[c] = "asked" /\ Become(c, "answered")
Receive(c) == phase[c] = "answered" /\ Become(c, "got")
Finish(c) == phase[c] = "got" /\ Become(c, "ok")
GiveUp(c) == phase[c] \in {"out", "asked"} /\ Become(c, "failed")
Killed(c) == phase[c] \in Underway /\ Become(c, "killed")

Next == \E c \in Clients : \/ Start(c) \/ Ask(c) \/ Answer(c) \/ Receive(c)
                           \/ Finish(c) \/ GiveUp(c) \/ Killed(c)

Spec == Init /\ [][Next]_phase
=============================================================================
