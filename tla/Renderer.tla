------------------------------ MODULE Renderer ------------------------------
(* What the pages have in common: the RabbitMQ clusters one of which each page shows. *)
EXTENDS Absent

CONSTANT Targets
=============================================================================
