------------------------------ MODULE Authority ------------------------------
(* The gate every enablement of supervision passes: detection of the three   *)
(* accounts and the protected store, resolution of the worker's groups, the  *)
(* choice and judgement of the program that changes identity, and the probe  *)
(* that tries the forbidden write as the worker; then the registration of    *)
(* the job.  Each step reads the host as it is then, and an administrator    *)
(* may change it between two steps.                                         *)
EXTENDS AccessControl

CONSTANTS
  Hosts,           \* the hosts the commands may be run on
  Change,          \* what an administrator may make of each
  MaxChanges,      \* bound on such changes
  MaxCommands,     \* bound on commands
  NoAccount, NoTool, NoJob, NoReport

Roles == {"operator", "service", "worker"}
Tools == {"setpriv", "runuser"}
Above == [top |-> {}, dir |-> {"top"}, store |-> {"dir", "top"},
          bin |-> {}, setpriv |-> {"bin"}, runuser |-> {"bin"}]

(* The platform, the accounts, the worker's groups, the configured program,  *)
(* and the store and the programs with the directories above them.          *)
Host ==
  [linux : BOOLEAN, peer : BOOLEAN, systemd : BOOLEAN, bridge : BOOLEAN, trusted : BOOLEAN,
   search : BOOLEAN,     \* whether the worker reaches the directory of the store
   account : [Roles -> Ids \cup {NoAccount}], groups : SUBSET Ids, primary : Ids,
   switch : {"unset", "another"} \cup Tools, node : [DOMAIN Above -> FileNode]]

ASSUME HostsAssumption == Hosts \subseteq Host /\ Change \in [Hosts -> SUBSET Hosts]
ASSUME NamesAssumption == NoReport \notin [Roles -> Ids \cup {NoAccount}]

VARIABLES
  host,
  command,     \* the command being run
  pc,
  recorded,    \* the accounts its own detection found, for the policy
  report,      \* the accounts the gate's detection found
  gids, tool,  \* what the gate resolved next
  job,         \* the accounts recorded with the worktree's job
  changes, commands,
  fresh,       \* nothing changed since the gate began (not in the code)
  unfit        \* since then the host was unfit at some moment, what the gate
               \* had read of it changed or a spawn failed (not in the code)

vars == <<host, command, pc, recorded, report, gids, tool, job, changes, commands, fresh, unfit>>

(* What is found under a name: nothing below what is no directory.           *)
Stat(h, q) ==
  IF \A p \in Above[q] : h.node[p].kind = "directory" THEN h.node[q]
  ELSE [h.node[q] EXCEPT !.kind = "missing"]
StoreParents(h) == <<Stat(h, "dir"), Stat(h, "top")>>
ToolParents(h) == <<Stat(h, "bin")>>

-----------------------------------------------------------------------------
(* Detection.                                                                *)
LookupUid(h, role) == h.account[role]
Principals(h) == [role \in Roles |-> LookupUid(h, role)]
Missing(p) == {role \in Roles : p[role] = NoAccount}
Distinct(p) == \A r, s \in Roles : r # s => p[r] # p[s]

(* The groups of an account that does not exist, or whose lookup fails, are  *)
(* none.                                                                     *)
GroupsOf(h) == IF h.account["worker"] = NoAccount THEN {} ELSE h.groups

PlatformSupports(h) == h.linux /\ h.peer

DetectBackend(h) ==
  LET p == Principals(h) IN
  IF ~PlatformSupports(h) THEN "unsupported"
  ELSE IF Missing(p) = {} /\ Distinct(p) /\ h.trusted
          /\ StoreContract(Stat(h, "store"), StoreParents(h), p["service"], p["worker"], GroupsOf(h))
  THEN "available" ELSE "unprovisioned"

(* The identity-changing program: the configured one if it is one of the two *)
(* and exists, else the first of them found executable.                     *)
Found(h, t) == Stat(h, t).kind = "file" /\ Stat(h, t).exec

DiscoverSwitch(h) ==
  IF h.switch # "unset"
  THEN IF h.switch \in Tools /\ Stat(h, h.switch).kind = "file" THEN h.switch ELSE NoTool
  ELSE IF Found(h, "setpriv") THEN "setpriv"
  ELSE IF Found(h, "runuser") THEN "runuser" ELSE NoTool

CanonicalSwitch(h, t, p, groups) ==
  TrustedLauncher(Stat(h, t), ToolParents(h), p["service"], p["worker"], groups)

ServiceHostAvailable(h) == h.systemd /\ h.bridge

-----------------------------------------------------------------------------
(* The kernel: the first class an account falls into decides.                *)
WellFormed(entries) ==
  LET Is(tag) == {i \in DOMAIN entries : entries[i].tag = tag}
      Order(i) == CHOOSE k \in DOMAIN Tags : Tags[k] = entries[i].tag
      named == Is("user") \cup Is("group")
  IN  /\ \A i \in DOMAIN entries : \E k \in DOMAIN Tags : Tags[k] = entries[i].tag
      /\ \A i, j \in DOMAIN entries : i < j => Order(i) <= Order(j)
      /\ \A tag \in {"user_obj", "group_obj", "other"} : \E i \in Is(tag) : Is(tag) = {i}
      /\ \A i, j \in Is("mask") : i = j
      /\ \A i \in DOMAIN entries : i \in named <=> entries[i].id # Undefined
      /\ \A i, j \in named : i # j => entries[i] # [entries[j] EXCEPT !.w = entries[i].w]
      /\ named # {} => Is("mask") # {}

Entries(n) ==
  LET entry(tag, class) == [tag |-> tag, id |-> Undefined, w |-> class \in n.bits]
  IN  IF n.acl.kind = "bytes" THEN n.acl.entries
      ELSE <<entry("user_obj", "owner"), entry("group_obj", "group"), entry("other", "other")>>

KernelWrites(n, uid, groups) ==
  LET Precedence(e) ==
        CASE e.tag = "user_obj" /\ uid = n.owner -> 1
          [] e.tag = "user" /\ e.id = uid -> 2
          [] e.tag = "group_obj" /\ n.group \in groups -> 3
          [] e.tag = "group" /\ e.id \in groups -> 3
          [] e.tag = "other" -> 4
          [] OTHER -> 5
      all == ToSet(Entries(n))
      deciding == {e \in all : \A f \in all : Precedence(e) <= Precedence(f)}
  IN  \/ uid = Root
      \/ \E e \in deciding :
           e.w /\ (Precedence(e) \in {2, 3} => \A m \in all : m.tag = "mask" => m.w)

(* What the child of the probe meets: setpriv drops the supplementary groups.*)
ChildGroups(h, t) == IF t = "setpriv" THEN {h.primary} ELSE h.groups

OpenResult(h, uid, groups) ==
  LET n == Stat(h, "store")
  IN  IF uid # Root /\ ~h.search THEN "EACCES"
      ELSE IF n.kind = "missing" THEN "ENOENT"
      ELSE IF n.kind = "directory" THEN "EISDIR"
      ELSE IF n.kind = "socket" THEN "ENXIO"
      ELSE IF n.acl.kind = "unreadable" \/ ~WellFormed(Entries(n)) THEN "EIO"
      ELSE IF KernelWrites(n, uid, groups) THEN "opened"
      ELSE "EACCES"

(* The child proves its identity before it tries the write.                  *)
ProbeScript(h, t, expected) ==
  LET uid == h.account["worker"] IN
  IF uid # expected THEN [uid |-> uid, outcome |-> "wrong_uid"]
  ELSE [uid |-> uid, outcome |-> OpenResult(h, uid, ChildGroups(h, t))]

\* Mutant: a failing exit is taken for the denial, whoever failed.
AcceptsExit(evidence, expected) == evidence.outcome # "opened"

AcceptsEvidence(evidence, expected) ==
  evidence.uid = expected /\ evidence.outcome = "EACCES"

-----------------------------------------------------------------------------
(* A host that is provisioned as the documents ask.                          *)
Guarded(h, names, owners) ==
  \A n \in {Stat(h, q) : q \in names} :
    /\ n.owner \in owners /\ n.acl.kind # "unreadable" /\ WellFormed(Entries(n))
    /\ ~KernelWrites(n, h.account["worker"], h.groups)

Fit(h, cmd) ==
  LET t == DiscoverSwitch(h) IN
  /\ h.linux /\ h.peer /\ h.trusted /\ h.groups # {}
  /\ cmd = "probe" => h.systemd /\ h.bridge
  /\ NoAccount \notin {h.account[r] : r \in Roles}
  /\ \A r, s \in Roles : h.account[r] = h.account[s] => r = s
  /\ t # NoTool /\ Stat(h, t).exec
  /\ Stat(h, "store").kind = "file"
  /\ \A q \in {"dir", "top", "bin"} : Stat(h, q).kind = "directory"
  /\ Guarded(h, {"store"}, {h.account["service"]})
  /\ Guarded(h, {"dir", "top", "bin", t}, {Root, h.account["service"]})
  /\ OpenResult(h, h.account["worker"], ChildGroups(h, t)) = "EACCES"

-----------------------------------------------------------------------------
Init ==
  /\ host \in Hosts
  /\ command = "none" /\ pc = "idle" /\ recorded = NoReport /\ report = NoReport
  /\ gids = {} /\ tool = NoTool /\ job = NoJob
  /\ changes = 0 /\ commands = 0 /\ fresh = TRUE /\ unfit = FALSE

Command(c) ==
  /\ pc \in {"idle", "refused", "enabled"} /\ commands < MaxCommands
  /\ commands' = commands + 1 /\ command' = c /\ fresh' = TRUE
  /\ report' = NoReport /\ gids' = {} /\ tool' = NoTool
  /\ UNCHANGED <<host, job, changes>>

(* opsx-plan supervise probe                                                 *)
ProbeCommand ==
  /\ Command("probe")
  /\ pc' = IF ServiceHostAvailable(host) THEN "detect" ELSE "refused"
  /\ unfit' = ~Fit(host, "probe")
  /\ recorded' = NoReport

(* opsx-plan supervise register: its own detection only supplies the         *)
(* accounts of the policy.                                                   *)
RegisterCommand ==
  /\ Command("register")
  /\ pc' = "detect" /\ recorded' = Principals(host)
  /\ unfit' = (~Fit(host, "register") \/ job # NoJob)

Refuse == pc' = "refused" /\ UNCHANGED <<report, gids, tool, job>>

Detect ==
  /\ pc = "detect" /\ UNCHANGED <<host, command, recorded, changes, commands, fresh, unfit>>
  /\ IF DetectBackend(host) = "available"
     THEN /\ pc' = "groups" /\ report' = Principals(host)
          /\ UNCHANGED <<gids, tool, job>>
     ELSE Refuse

ResolveGroups ==
  /\ pc = "groups" /\ UNCHANGED <<host, command, recorded, changes, commands, fresh, unfit>>
  /\ IF GroupsOf(host) # {}
     THEN /\ pc' = "switch" /\ gids' = GroupsOf(host)
          /\ UNCHANGED <<report, tool, job>>
     ELSE Refuse

ChooseSwitch ==
  /\ pc = "switch" /\ UNCHANGED <<host, command, recorded, changes, commands, fresh, unfit>>
  /\ LET t == DiscoverSwitch(host) IN
     IF t # NoTool /\ CanonicalSwitch(host, t, report, gids)
     THEN /\ pc' = "probe" /\ tool' = t
          /\ UNCHANGED <<report, gids, job>>
     ELSE Refuse

(* The spawn fails when the program was removed since, when the account is   *)
(* gone, or for a reason of its own.                                        *)
SpawnFails ==
  /\ pc = "probe" /\ Refuse /\ unfit' = TRUE
  /\ UNCHANGED <<host, command, recorded, changes, commands, fresh>>

Probe ==
  /\ pc = "probe" /\ UNCHANGED <<host, command, recorded, changes, commands, fresh, unfit>>
  /\ Found(host, tool) /\ host.account["worker"] # NoAccount
  /\ IF AcceptsEvidence(ProbeScript(host, tool, report["worker"]), report["worker"])
     THEN /\ pc' = IF command = "probe" THEN "enabled" ELSE "record"
          /\ UNCHANGED <<report, gids, tool, job>>
     ELSE Refuse

(* The job's row, unless the worktree has an active job.                     *)
RegisterJob ==
  /\ pc = "record" /\ UNCHANGED <<host, command, recorded, changes, commands, fresh, unfit>>
  /\ IF job = NoJob
     THEN pc' = "enabled" /\ job' = recorded /\ UNCHANGED <<report, gids, tool>>
     ELSE Refuse

(* The host is no longer what the gate read of it and goes on with.         *)
Outdated(h) ==
  \/ report # NoReport /\ Principals(h) # report
  \/ gids # {} /\ GroupsOf(h) # gids
  \/ tool # NoTool /\ DiscoverSwitch(h) # tool

(* An administrator changes an account, a group, an owner, a bit or an ACL.  *)
Administer ==
  /\ changes < MaxChanges /\ changes' = changes + 1
  /\ host' \in Change[host] /\ fresh' = FALSE
  /\ unfit' = (unfit \/ ~Fit(host', command) \/ Outdated(host'))
  /\ UNCHANGED <<command, pc, recorded, report, gids, tool, job, commands>>

Gate == Detect \/ ResolveGroups \/ ChooseSwitch \/ SpawnFails \/ Probe \/ RegisterJob

Next == ProbeCommand \/ RegisterCommand \/ Gate \/ Administer

Spec == Init /\ [][Next]_vars
=============================================================================
