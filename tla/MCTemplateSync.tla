--------------------------- MODULE MCTemplateSync ---------------------------
(* Small instances of TemplateSync for TLC.                               *)
EXTENDS TemplateSync

CONSTANTS p1, p2, r1, r2, t1

(* Requests about the first task reach either process, those about the
   second only one. *)
OneEach == {<<p1, r1>>, <<p2, r1>>, <<p2, r2>>}
=============================================================================
