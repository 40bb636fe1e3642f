----------------------------- MODULE MCIngress -------------------------------
(* Ingress beside two other descriptors, which their handlers close and    *)
(* open again.                                                             *)
EXTENDS Ingress
=============================================================================
