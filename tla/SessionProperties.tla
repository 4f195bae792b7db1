------------------------- MODULE SessionProperties -------------------------
(***************************************************************************)
(* What the primary session's journal promises about the session server.    *)
(***************************************************************************)
EXTENDS PrimarySession

TypeOK ==
  /\ gateway \in BOOLEAN /\ servers \subseteq 1 .. launched /\ launched \in 0 .. MaxStarts
  /\ sessions \subseteq Sessions /\ made \in 0 .. MaxStarts
  /\ linked \subseteq 1 .. made /\ process \in [Sessions -> Servers \cup {NoServer}]
  /\ prompts \in [Ids -> Prompt] /\ count \in 0 .. MaxStarts
  /\ service \in {"down", "probe", "launch", "create", "link", "begin", "contract", "reserve",
                  "dispatch", "send", "unsure", "poll", "unobserved", "resolve", "settle",
                  "close", "finish", "refused", "serving"}
  /\ target \in Sessions \cup {NoSession} /\ own \in Servers \cup {NoServer} /\ call \in Call
  /\ starts \in 0 .. MaxStarts /\ recoveries \in 0 .. MaxRecoveries /\ engine \in {"idle", "marked"}

Live == {"transit", "running"}

(* At no time do two prompts run, or may still arrive, in one session,      *)
(* whatever acknowledgements were lost, however often the service was       *)
(* restarted, and whatever the run engine made of the journal               *)
(* (JournaledSessionBridge.in_flight_prompt).                               *)
OnePrompt ==
  \A i, j \in Ids :
    (prompts[i].request \in Live /\ prompts[j].request \in Live
       /\ prompts[i].session = prompts[j].session) => i = j

(* An action is closed only on what the server said of its own request: it  *)
(* completed only if that request did, and a request that still runs or may *)
(* arrive keeps its action open (parse_result_schema, resolve).             *)
OutcomeIsOwn ==
  \A i \in Ids :
    /\ prompts[i].state = "completed" => prompts[i].request = "completed"
    /\ prompts[i].state = "failed" => prompts[i].request \notin Live

(* A request that ever left the service has its dispatch, its reservation   *)
(* and the linkage of its session in the ledger, so that a restart and an   *)
(* operator's chat find it (prompt, record_primary_session_linkage).        *)
IdentityFirst ==
  \A i \in Ids : prompts[i].request # "unsent" =>
    /\ prompts[i].state \notin {"absent", "intent"} /\ prompts[i].reservation # "none"
    /\ prompts[i].session \in linked

(* Without a gateway a prompt only ever reaches the very server process     *)
(* whose identity its dispatch record names, also when another server has   *)
(* meanwhile taken the recorded address (evaluate_transport,                *)
(* check_server_identity).                                                  *)
ReachesBoundServer ==
  \A i \in Ids : prompts[i].by # NoServer => gateway \/ prompts[i].by = prompts[i].process

(* A start of the service ends: it serves, or it reports why not            *)
(* (poll_until_terminal is bounded).                                        *)
StartEnds == (service \notin {"down", "serving"}) ~> (service \in {"down", "serving"})
=============================================================================
