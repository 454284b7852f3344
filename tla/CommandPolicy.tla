---------------------------- MODULE CommandPolicy ----------------------------
(***************************************************************************)
(* packages/contracts/src/command-policy.ts: the statuses of a remote      *)
(* command, the table of explicit transitions, and the comparison that     *)
(* decides whether two requests with one idempotency key are the same.     *)
(***************************************************************************)

CommandStatus == {"created", "queued", "delivering",
                  "succeeded", "rejected", "conflict", "expired", "failed"}

\* The list the API, the worker and the web page each spell out.
TerminalStatus == {"succeeded", "rejected", "conflict", "expired", "failed"}

OpenStatus == CommandStatus \ TerminalStatus

transitions == [s \in CommandStatus |->
    CASE s = "created"    -> {"queued", "expired", "failed"}
      [] s = "queued"     -> {"delivering", "expired", "failed"}
      [] s = "delivering" -> {"queued"} \union TerminalStatus
      [] OTHER            -> {}]

canTransitionCommand(from, to) == from \in CommandStatus /\ to \in transitions[from]

(***************************************************************************)
(* A pause request carries a target and an `expectedAttemptUpdatedAt', a   *)
(* pair <<instant, spelling>>: one instant has several ISO 8601 spellings. *)
(* The column expectedTargetUpdatedAt is compared as an instant; the       *)
(* payload keeps the text the client sent, so canonicalJson sorts its keys *)
(* but tells two spellings apart.                                          *)
(***************************************************************************)
timestamp(text) == text[1]

canonicalJson(body) == [attemptId |-> body.targetId,
                        expectedAttemptUpdatedAt |-> body.updatedAt]

sameIdempotentCommand(left, right) ==
    /\ left.targetId = right.targetId
    /\ timestamp(left.updatedAt) = timestamp(right.updatedAt)
    /\ canonicalJson(left) = canonicalJson(right)
==============================================================================
