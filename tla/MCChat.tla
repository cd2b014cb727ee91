------------------------------- MODULE MCChat -------------------------------
(* Constants for model-checking ChatRotation.  Durations are in ticks, in    *)
(* the order of the defaults: 60 s, 10 min, 12 h.                            *)
EXTENDS ChatRotation, TLC

CONSTANTS a1, a2, r1, r2, balancer, keeper

MCReasons == {HardReason, SoftReason, NotFoundReason, DeadReason,
              RefreshDeadReason, RefreshReason, ManualDisable, ManualCool,
              "consecutive errors"}
MCErrReason == "consecutive errors"
MCDurations == {1, 2, 3}

MCReplies == {[status |-> 402, body |-> Plain],
              [status |-> 429, body |-> Plain],
              [status |-> 404, body |-> Plain],
              [status |-> 401, body |-> DeadBody],
              [status |-> 400, body |-> HardBody],
              [status |-> 500, body |-> Plain]}

MCFewReplies == {[status |-> 401, body |-> DeadBody], [status |-> 402, body |-> Plain]}
=============================================================================
