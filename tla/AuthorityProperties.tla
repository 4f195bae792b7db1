------------------------- MODULE AuthorityProperties -------------------------
(* What the gate of module Authority promises: it fails closed, and it does  *)
(* not refuse a host that is provisioned as asked.                          *)
EXTENDS Authority

(* Supervision enabled on a host nobody changed meanwhile is supervision of  *)
(* a host whose worker the kernel keeps from the store, from the directories *)
(* that hold it and from the program that will start workers, whatever the   *)
(* owners, bits, groups and ACLs are.                                        *)
EnabledIsProtected == pc = "enabled" /\ fresh => Fit(host, command)

(* Even when the host changes under the gate, the probe only passes with a   *)
(* child that has the worker's uid as it was judged, is not root, and at    *)
(* that moment is refused the store by the kernel, or cannot even search    *)
(* the directory of the store.                                              *)
ProbedNow ==
  [][pc = "probe" /\ pc' \in {"record", "enabled"} =>
       /\ host.account["worker"] = report["worker"]
       /\ report["worker"] # Root
       /\ host.search =>
            /\ Stat(host, "store").kind = "file"
            /\ ~KernelWrites(Stat(host, "store"), report["worker"], ChildGroups(host, tool))]_vars

(* A refusal has a cause: the host was not provisioned as asked at some      *)
(* moment of the gate, an account, its groups or the program that is chosen  *)
(* changed meanwhile, the program could not be started, or the worktree has  *)
(* a job.  No well-formed ACL that denies    *)
(* the worker is turned down.                                               *)
RefusedHasCause == pc = "refused" => unfit
=============================================================================
