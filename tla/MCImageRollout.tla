---------------------------- MODULE MCImageRollout ----------------------------
(* Small instances of ImageRollout: a workload that may be written to, one of   *)
(* the serving stack beside it, and a namespace of the system by mistake on the *)
(* list of writable ones.                                                       *)
EXTENDS ImageRollout, TLC

CONSTANTS d1, d2, old, new, bad

Web   == <<"app", "web">>
Vllm  == <<"app", "vllm">>
Proxy == <<"kube-system", "proxy">>
SomeImages == d1 :> {bad, new} @@ d2 :> {}
AllWorkloads == {Web, Vllm, Proxy}
================================================================================
