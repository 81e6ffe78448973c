------------------------------ MODULE MCOutbox ------------------------------
(* An event with a handler and one without; the cfg has one worker.        *)
EXTENDS Outbox

CONSTANTS known, unknown, w1, w2
=============================================================================
