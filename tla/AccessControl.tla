---------------------------- MODULE AccessControl ----------------------------
(* Who may write a file or a directory, as lib/supervisor/authority.py       *)
(* decides it from ownership, the write bits and a POSIX access ACL, without *)
(* trying.  A node of the file system is                                     *)
(*   [kind, owner, group, bits : the classes whose write bit is set,         *)
(*    exec, acl : [kind, entries]]                                           *)
(* and an ACL entry is [tag, id, w]: of the permissions only "w" is kept.    *)
EXTENDS Naturals, Sequences, SequencesExt

CONSTANTS
  Ids,         \* uids and gids
  Root,        \* the uid that no permission stops
  Undefined    \* ACL_UNDEFINED_ID: the id of an entry that names nobody

Kinds == {"missing", "directory", "file", "socket"}
Tags == <<"user_obj", "user", "group_obj", "group", "mask", "other">>

(* The attribute is absent, or its bytes hold the entries (none when the     *)
(* header or the length is wrong), or it cannot be read.                    *)
NoAcl == [kind |-> "absent", entries |-> <<>>]
UnreadableAcl == [kind |-> "unreadable", entries |-> <<>>]
Bytes(entries) == [kind |-> "bytes", entries |-> entries]

AclEntry == [tag : STRING, id : Ids \cup {Undefined}, w : BOOLEAN]
FileNode == [kind : Kinds, owner : Ids, group : Ids, bits : SUBSET {"owner", "group", "other"},
             exec : BOOLEAN, acl : [kind : {"absent", "unreadable", "bytes"}, entries : Seq(AclEntry)]]

-----------------------------------------------------------------------------
(* The walk over the entries: the tag it waits for, the ids it has seen.     *)
Walk == [at |-> "user_obj", named |-> {}, mask |-> FALSE, ok |-> TRUE]

Singleton(w, e, from, to) ==
  [w EXCEPT !.ok = @ /\ w.at \in from /\ e.id = Undefined, !.at = to]

Named(w, e) ==
  [w EXCEPT !.ok = @ /\ w.at = e.tag /\ e.id # Undefined /\ <<e.tag, e.id>> \notin w.named,
            !.named = @ \cup {<<e.tag, e.id>>}]

WalkEntry(w, e) ==
  CASE e.tag = "user_obj" -> Singleton(w, e, {"user_obj"}, "user")
    [] e.tag = "user" -> Named(w, e)
    [] e.tag = "group_obj" -> Singleton(w, e, {"user"}, "group")
    [] e.tag = "group" -> Named(w, e)
    [] e.tag = "mask" -> [Singleton(w, e, {"group"}, "other") EXCEPT !.mask = TRUE]
    [] e.tag = "other" ->
         Singleton(w, e, {"other"} \cup IF w.named = {} THEN {"group"} ELSE {}, "end")
    [] OTHER -> [w EXCEPT !.ok = FALSE]

\* Mutant: an ACL without a mask is malformed.
AclHasMask(entries) ==
  LET w == FoldLeft(WalkEntry, Walk, entries) IN w.ok /\ w.at = "end" /\ w.mask

AclStructureIsValid(entries) ==
  LET w == FoldLeft(WalkEntry, Walk, entries)
  IN  w.ok /\ w.at = "end" /\ (w.named # {} => w.mask)

ParseAcl(acl) == IF AclStructureIsValid(acl.entries) THEN acl.entries ELSE <<>>

-----------------------------------------------------------------------------
Matching(entries, tag, ids) == {e \in ToSet(entries) : e.tag = tag /\ e.id \in ids}

(* Whether the ACL may let the account write: the first class it falls into  *)
(* decides, an ACL that does not parse is taken to grant.                   *)
AclMayWrite(n, uid, gids) ==
  LET entries == ParseAcl(n.acl)
      Grants(S) == \E e \in S : e.w
      masked == \A e \in Matching(entries, "mask", {Undefined}) : e.w
      user == Matching(entries, "user", {uid})
      class == Matching(entries, "group", gids)
               \cup IF n.group \in gids THEN Matching(entries, "group_obj", {Undefined}) ELSE {}
  IN  entries = <<>> \/ uid = Root
      \/ IF uid = n.owner THEN Grants(Matching(entries, "user_obj", {Undefined}))
         ELSE IF user # {} THEN Grants(user) /\ masked
         ELSE IF class # {} THEN Grants(class) /\ masked
         ELSE Grants(Matching(entries, "other", {Undefined}))

ModeMayWrite(n, uid, gids) ==
  \/ uid = Root
  \/ (IF uid = n.owner THEN "owner" ELSE IF n.group \in gids THEN "group" ELSE "other") \in n.bits

ReadAcl(n) == IF n.acl.kind = "unreadable" THEN "error" ELSE n.acl.kind

\* Mutant: the write bits are believed although there is an ACL.
DeniedByBits(n, uid, gids) == ~ModeMayWrite(n, uid, gids)

WorkerWriteDenied(n, uid, gids) ==
  CASE ReadAcl(n) = "absent" -> ~ModeMayWrite(n, uid, gids)
    [] ReadAcl(n) = "bytes" -> ~AclMayWrite(n, uid, gids)
    [] OTHER -> FALSE

-----------------------------------------------------------------------------
(* The protected file, and the programs that change identity, are judged     *)
(* with every directory above them; service is the uid of the service.       *)
TrustedOwner(uid, service) == uid \in {Root, service}

TrustedDirectory(n, service, uid, gids) ==
  n.kind = "directory" /\ TrustedOwner(n.owner, service) /\ WorkerWriteDenied(n, uid, gids)

(* The directories are judged from the nearest up to the first missing one.  *)
AncestryTrusted(parents, service, uid, gids) ==
  \A i \in DOMAIN parents :
    (\A j \in 1 .. i : parents[j].kind # "missing") =>
      TrustedDirectory(parents[i], service, uid, gids)

StoreContract(store, parents, service, uid, gids) ==
  /\ AncestryTrusted(parents, service, uid, gids)
  /\ store.kind = "file" /\ store.owner = service
  /\ WorkerWriteDenied(store, uid, gids)

TrustedLauncher(tool, parents, service, uid, gids) ==
  /\ tool.kind = "file" /\ tool.exec /\ TrustedOwner(tool.owner, service)
  /\ WorkerWriteDenied(tool, uid, gids)
  /\ AncestryTrusted(parents, service, uid, gids)
=============================================================================
