----------------------------- MODULE MCAuthority -----------------------------
(* Hosts that are provisioned as asked, or differ from one in one respect;   *)
(* on some, one ACL from a small grammar and its malformed neighbours.       *)
EXTENDS AuthorityProperties, TLC

MCIds == {Root, "op", "svc", "wrk", "new", "system", "dev"}

Node(kind, owner) ==
  [kind |-> kind, owner |-> owner, group |-> "system", bits |-> {"owner"}, exec |-> TRUE,
   acl |-> NoAcl]
Names == {"top", "dir", "store", "bin", "setpriv", "runuser"}

Asked ==
  [linux |-> TRUE, peer |-> TRUE, systemd |-> TRUE, bridge |-> TRUE, trusted |-> TRUE,
   search |-> TRUE,
   account |-> [operator |-> "op", service |-> "svc", worker |-> "wrk"],
   groups |-> {"wrk"}, primary |-> "wrk", switch |-> "unset",
   node |-> [top |-> Node("directory", Root), dir |-> Node("directory", "svc"),
             store |-> Node("file", "svc"), bin |-> Node("directory", Root),
             setpriv |-> Node("file", Root), runuser |-> Node("file", Root)]]
WithDev == [Asked EXCEPT !.groups = {"wrk", "dev"}]
NoSetpriv == [WithDev EXCEPT !.node["setpriv"].kind = "missing"]

Entry(tag, id, w) == [tag |-> tag, id |-> id, w |-> w]
Users == {<<>>} \cup {<<Entry("user", "wrk", w)>> : w \in BOOLEAN}
         \cup {<<Entry("user", "op", TRUE)>>, <<Entry("user", "op", TRUE), Entry("user", "wrk", FALSE)>>}
Groups == {<<>>, <<Entry("group", "dev", TRUE)>>, <<Entry("group", "dev", FALSE)>>,
           <<Entry("group", "dev", FALSE), Entry("group", "wrk", TRUE)>>}
Masks == {<<>>} \cup {<<Entry("mask", Undefined, w)>> : w \in BOOLEAN}
Acls ==
  {<<Entry("user_obj", Undefined, TRUE)>> \o u \o <<Entry("group_obj", Undefined, g)>> \o gs \o m
     \o <<Entry("other", Undefined, o)>> :
     u \in Users, g \in BOOLEAN, gs \in Groups, m \in Masks, o \in BOOLEAN}

(* Entries out of order, repeated, left out, unknown or with the wrong id.   *)
Whole == <<Entry("user_obj", Undefined, TRUE), Entry("user", "op", FALSE),
           Entry("group_obj", Undefined, FALSE), Entry("group", "dev", FALSE),
           Entry("mask", Undefined, FALSE), Entry("other", Undefined, FALSE)>>
Broken ==
  LET N == DOMAIN Whole IN
  {<<>>} \cup {RemoveAt(Whole, i) : i \in N} \cup {InsertAt(Whole, i, Whole[i]) : i \in N}
  \cup {[Whole EXCEPT ![i] = Whole[i + 1], ![i + 1] = Whole[i]] : i \in N \ {Len(Whole)}}
  \cup {[Whole EXCEPT ![i].id = IF @ = Undefined THEN "op" ELSE Undefined] : i \in N}
  \cup {[Whole EXCEPT ![i].tag = "unknown"] : i \in N}

Alter(h, q) ==
  {[h EXCEPT !.node[q].kind = k] : k \in Kinds}
  \cup {[h EXCEPT !.node[q].owner = u] : u \in {Root, "svc", "wrk", "op"}}
  \cup {[h EXCEPT !.node[q].bits = {"owner", b}, !.node[q].group = g] :
          b \in {"owner", "group", "other"}, g \in {"system", "wrk", "dev"}}
  \cup {[h EXCEPT !.node[q].exec = FALSE], [h EXCEPT !.node[q].acl = UnreadableAcl],
        [h EXCEPT !.node[q].acl = Bytes(Whole)],
        [h EXCEPT !.node[q].acl = Bytes([Whole EXCEPT ![2].id = "wrk", ![2].w = TRUE, ![5].w = TRUE])]}

Accounts(h) ==
  {[h EXCEPT !.account[r] = u] : r \in Roles, u \in {"op", "svc", "wrk", "new", Root, NoAccount}}
  \cup {[h EXCEPT !.groups = G] : G \in {{}, {"wrk"}, {"wrk", "dev"}}}

Facts(h) ==
  {[h EXCEPT !.linux = FALSE], [h EXCEPT !.peer = FALSE], [h EXCEPT !.systemd = FALSE],
   [h EXCEPT !.bridge = FALSE], [h EXCEPT !.trusted = FALSE], [h EXCEPT !.search = FALSE]}
  \cup {[h EXCEPT !.switch = t] : t \in {"setpriv", "runuser", "another"}}

Changed(h) == Facts(h) \cup Accounts(h) \cup UNION {Alter(h, q) : q \in Names}

Steady == {Asked, WithDev, NoSetpriv}
MCHosts ==
  UNION {Changed(h) : h \in Steady}
  \cup {[h EXCEPT !.node[q].acl = Bytes(a), !.node[q].group = g] :
          h \in {Asked, WithDev}, q \in {"store", "dir", "bin", "setpriv"},
          a \in Acls \cup Broken, g \in {"system", "wrk"}}

(* What an administrator does while the gate runs, on the hosts that change. *)
MCChange == [h \in MCHosts |-> IF h \in Steady THEN Changed(h) ELSE {}]
=============================================================================
